---- MODULE Spec2Model ----
(***************************************************************************)
(* Document processing and assessment workflow of the social-security      *)
(* application system: ApplicationWorkflowOrchestrator                     *)
(* (req_agents/workflow_orchestrator.py) with the parts of                 *)
(* DocumentProcessingAgent and AssessmentAgent it drives.                  *)
(***************************************************************************)
EXTENDS Integers, Sequences, FiniteSets, TLC

(***************************************************************************)
(* Bounds of the model.                                                    *)
(***************************************************************************)
MaxDocs == 2
MaxRuns == 2
MaxClock == 1
MaxCalls == 1

(***************************************************************************)
(* Python dict helpers: a dict is a function whose DOMAIN is its key set.  *)
(***************************************************************************)
EmptyDict == <<>>

HasKey(d, k) == k \in DOMAIN d

\* dict.get(k, default)
Get(d, k, default) == IF k \in DOMAIN d THEN d[k] ELSE default

\* dict.update(e)
Update(d, e) ==
    [k \in DOMAIN d \cup DOMAIN e |-> IF k \in DOMAIN e THEN e[k] ELSE d[k]]

\* Python truthiness of a text value ("" and None are falsy) and of a number
Truthy(v) == v # ""
TruthyNumber(v) == v # 0

(***************************************************************************)
(* WorkflowStatus (workflow_orchestrator.py:30-38).                        *)
(***************************************************************************)
INITIATED == "initiated"
PROCESSING_DOCUMENTS == "processing_documents"
DOCUMENTS_PROCESSED == "documents_processed"
RUNNING_ASSESSMENT == "running_assessment"
ASSESSMENT_COMPLETE == "assessment_complete"
COMPLETED == "completed"
FAILED == "failed"

WorkflowStatus ==
    {INITIATED, PROCESSING_DOCUMENTS, DOCUMENTS_PROCESSED, RUNNING_ASSESSMENT,
     ASSESSMENT_COMPLETE, COMPLETED, FAILED}

(***************************************************************************)
(* The intake location: the files a batch can name.  Existence, suffix and *)
(* size are what os.path.exists, Path.suffix.lower() and os.path.getsize   *)
(* report for the path.                                                    *)
(***************************************************************************)
FilePaths == {"eid.pdf", "cv.docx", "gone.pdf", "virus.exe", "huge.pdf"}

FileExists(p) == p # "gone.pdf"

FileSuffix(p) ==
    CASE p = "eid.pdf" -> ".pdf"
      [] p = "cv.docx" -> ".docx"
      [] p = "gone.pdf" -> ".pdf"
      [] p = "virus.exe" -> ".exe"
      [] p = "huge.pdf" -> ".pdf"

\* size in MB
FileSizeMB(p) == IF p = "huge.pdf" THEN 51 ELSE 1

\* declared purposes a caller can send; NoPurpose is a document dict without
\* the "purpose" key
NoPurpose == "<absent>"
Purposes == {"emirates_id", "Resume", "credit_report", NoPurpose}

\* str.lower() on the purposes of the model
Lower(s) == IF s = "Resume" THEN "resume" ELSE s

Documents == [file_path : FilePaths, purpose : Purposes]

\* doc.get("purpose", default)
DocPurpose(doc, default) ==
    IF doc.purpose = NoPurpose THEN default ELSE doc.purpose

(***************************************************************************)
(* _validate_documents (workflow_orchestrator.py:220-288).                 *)
(***************************************************************************)
valid_extensions ==
    {".pdf", ".docx", ".doc", ".xlsx", ".xls", ".png", ".jpg", ".jpeg", ".txt"}

format_rules ==
    [emirates_id |-> {".pdf"},
     resume |-> {".pdf", ".docx", ".doc"},
     assets_liabilities |-> {".xlsx", ".xls"},
     credit_report |-> {".pdf", ".txt"},
     bank_statement |-> {".pdf", ".txt"}]

MaxFileSizeMB == 50

\* the purpose-format rule is not applied
DocValidationErrors_NoFormatRule(doc) ==
    LET file_path == doc.file_path
        file_ext == FileSuffix(file_path)
    IN  IF ~FileExists(file_path)
        THEN << <<"File not found", file_path>> >>
        ELSE IF file_ext \notin valid_extensions
        THEN << <<"Unsupported file format", file_ext, file_path>> >>
        ELSE IF FileSizeMB(file_path) > MaxFileSizeMB
        THEN << <<"File too large", file_path>> >>
        ELSE << >>

\* the errors one document of the loop appends, in order
DocValidationErrors(doc) ==
    LET file_path == doc.file_path
        purpose == Lower(DocPurpose(doc, ""))
        file_ext == FileSuffix(file_path)
    IN  IF ~FileExists(file_path)
        THEN << <<"File not found", file_path>> >>
        ELSE IF file_ext \notin valid_extensions
        THEN << <<"Unsupported file format", file_ext, file_path>> >>
        ELSE (IF purpose \in DOMAIN format_rules
                 /\ file_ext \notin format_rules[purpose]
              THEN << <<"Invalid format", file_ext, purpose>> >>
              ELSE << >>)
             \o (IF FileSizeMB(file_path) > MaxFileSizeMB
                 THEN << <<"File too large", file_path>> >>
                 ELSE << >>)

\* the document sets required_docs[purpose] = True
DocCoversPurpose(doc, p) ==
    LET file_path == doc.file_path
        purpose == Lower(DocPurpose(doc, ""))
        file_ext == FileSuffix(file_path)
    IN  /\ FileExists(file_path)
        /\ file_ext \in valid_extensions
        /\ purpose \in DOMAIN format_rules
        /\ file_ext \in format_rules[purpose]
        /\ purpose = p

RECURSIVE LoopErrors(_, _)
LoopErrors(documents, i) ==
    IF i > Len(documents) THEN << >>
    ELSE DocValidationErrors(documents[i]) \o LoopErrors(documents, i + 1)

required_docs(documents, p) ==
    \E i \in 1..Len(documents) : DocCoversPurpose(documents[i], p)

MissingEmiratesId == <<"Missing required document", "Emirates ID">>
ResumeWarning ==
    <<"Resume/CV not provided - employment assessment may be limited">>

\* a missing Emirates ID is reported as a warning, like a missing resume
ValidateDocuments_EmiratesOptional(documents) ==
    LET errors == LoopErrors(documents, 1)
        warnings == (IF ~required_docs(documents, "emirates_id")
                     THEN <<MissingEmiratesId>> ELSE << >>)
                    \o (IF ~required_docs(documents, "resume")
                        THEN <<ResumeWarning>> ELSE << >>)
    IN  [valid |-> Len(errors) = 0, errors |-> errors, warnings |-> warnings]

ValidateDocuments(documents) ==
    LET errors == LoopErrors(documents, 1)
                  \o (IF ~required_docs(documents, "emirates_id")
                      THEN <<MissingEmiratesId>> ELSE << >>)
        warnings == IF ~required_docs(documents, "resume")
                    THEN <<ResumeWarning>> ELSE << >>
    IN  [valid |-> Len(errors) = 0, errors |-> errors, warnings |-> warnings]

(***************************************************************************)
(* Text as the code sees it: a string is the sequence of its characters,   *)
(* so that "pattern in text" is a real substring test.  Chars spells the   *)
(* strings of the model (non-ASCII characters by code point).              *)
(***************************************************************************)
Chars(s) ==
    CASE s = "emirates_id" -> <<"e","m","i","r","a","t","e","s","_","i","d">>
      [] s = "resume" -> <<"r","e","s","u","m","e">>
      [] s = "credit_report" -> <<"c","r","e","d","i","t","_","r","e","p","o","r","t">>
      [] s = "unknown" -> <<"u","n","k","n","o","w","n">>
      [] s = "assets_liabilities" -> <<"a","s","s","e","t","s","_","l","i","a","b","i","l","i","t","i","e","s">>
      [] s = "bank_statement" -> <<"b","a","n","k","_","s","t","a","t","e","m","e","n","t">>
      [] s = "eid.pdf" -> <<"e","i","d",".","p","d","f">>
      [] s = "cv.docx" -> <<"c","v",".","d","o","c","x">>
      [] s = "gone.pdf" -> <<"g","o","n","e",".","p","d","f">>
      [] s = "virus.exe" -> <<"v","i","r","u","s",".","e","x","e">>
      [] s = "huge.pdf" -> <<"h","u","g","e",".","p","d","f">>
      [] s = "bachelor of science" -> <<"b","a","c","h","e","l","o","r"," ","o","f"," ","s","c","i","e","n","c","e">>
      [] s = "certificate" -> <<"c","e","r","t","i","f","i","c","a","t","e">>
      [] s = "phd" -> <<"p","h","d">>
      [] s = "doctorate" -> <<"d","o","c","t","o","r","a","t","e">>
      [] s = "doctoral" -> <<"d","o","c","t","o","r","a","l">>
      [] s = "master" -> <<"m","a","s","t","e","r">>
      [] s = "masters" -> <<"m","a","s","t","e","r","s">>
      [] s = "mba" -> <<"m","b","a">>
      [] s = "bachelor" -> <<"b","a","c","h","e","l","o","r">>
      [] s = "bachelors" -> <<"b","a","c","h","e","l","o","r","s">>
      [] s = "degree" -> <<"d","e","g","r","e","e">>
      [] s = "diploma" -> <<"d","i","p","l","o","m","a">>
      [] s = "associate" -> <<"a","s","s","o","c","i","a","t","e">>
      [] s = "high school" -> <<"h","i","g","h"," ","s","c","h","o","o","l">>
      [] s = "secondary" -> <<"s","e","c","o","n","d","a","r","y">>
      [] s = "primary" -> <<"p","r","i","m","a","r","y">>
      [] s = "elementary" -> <<"e","l","e","m","e","n","t","a","r","y">>

\* Python's "needle in hay"
Contains(hay, needle) ==
    \E i \in 0..(Len(hay) - Len(needle)) :
        SubSeq(hay, i + 1, i + Len(needle)) = needle

(***************************************************************************)
(* DocumentType and the classification table                               *)
(* (document_processor.py:60-67, 98-124).                                  *)
(***************************************************************************)
UNKNOWN == "unknown"

DocumentTypes ==
    {"emirates_id", "resume", "assets_liabilities", "credit_report",
     "bank_statement", UNKNOWN}

document_patterns ==
    <<
     [doc_type |-> "emirates_id", patterns |->
        << <<"e","m","i","r","a","t","e","s"," ","i","d">>,
          <<"i","d","e","n","t","i","t","y"," ","c","a","r","d">>,
          <<"u","a","e"," ","i","d">>,
          <<"n","a","t","i","o","n","a","l"," ","i","d">>,
          <<"u0647","u0648","u064A","u0629"," ","u0627","u0644","u0625","u0645","u0627","u0631","u0627","u062A">>,
          <<"u0628","u0637","u0627","u0642","u0629"," ","u0627","u0644","u0647","u0648","u064A","u0629">>,
          <<"r","e","s","i","d","e","n","t"," ","f","l","a","g">>,
          <<"n","a","t","i","o","n","a","l","i","t","y">> >>],
     [doc_type |-> "resume", patterns |->
        << <<"r","e","s","u","m","e">>,
          <<"c","v">>,
          <<"c","u","r","r","i","c","u","l","u","m"," ","v","i","t","a","e">>,
          <<"e","x","p","e","r","i","e","n","c","e">>,
          <<"e","d","u","c","a","t","i","o","n">>,
          <<"s","k","i","l","l","s">>,
          <<"e","m","p","l","o","y","m","e","n","t"," ","h","i","s","t","o","r","y">>,
          <<"w","o","r","k"," ","e","x","p","e","r","i","e","n","c","e">>,
          <<"p","r","o","f","e","s","s","i","o","n","a","l"," ","e","x","p","e","r","i","e","n","c","e">>,
          <<"c","a","r","e","e","r"," ","s","u","m","m","a","r","y">> >>],
     [doc_type |-> "assets_liabilities", patterns |->
        << <<"a","s","s","e","t","s">>,
          <<"l","i","a","b","i","l","i","t","i","e","s">>,
          <<"b","a","l","a","n","c","e"," ","s","h","e","e","t">>,
          <<"f","i","n","a","n","c","i","a","l"," ","s","t","a","t","e","m","e","n","t">>,
          <<"n","e","t"," ","w","o","r","t","h">>,
          <<"p","o","r","t","f","o","l","i","o">>,
          <<"i","n","v","e","s","t","m","e","n","t","s">>,
          <<"b","a","n","k"," ","a","c","c","o","u","n","t">>,
          <<"s","a","v","i","n","g","s">>,
          <<"p","r","o","p","e","r","t","y">>,
          <<"l","o","a","n","s">>,
          <<"c","r","e","d","i","t"," ","c","a","r","d","s">> >>],
     [doc_type |-> "credit_report", patterns |->
        << <<"c","r","e","d","i","t"," ","r","e","p","o","r","t">>,
          <<"c","r","e","d","i","t"," ","s","c","o","r","e">>,
          <<"c","r","e","d","i","t"," ","h","i","s","t","o","r","y">>,
          <<"c","r","e","d","i","t"," ","b","u","r","e","a","u">>,
          <<"a","e","c","b">>,
          <<"a","l"," ","e","t","i","h","a","d"," ","c","r","e","d","i","t"," ","b","u","r","e","a","u">>,
          <<"e","t","i","h","a","d"," ","b","u","r","e","a","u">>,
          <<"e","x","p","e","r","i","a","n">>,
          <<"e","q","u","i","f","a","x">>,
          <<"c","b"," ","s","u","b","j","e","c","t"," ","i","d">>,
          <<"p","r","o","v","i","d","e","r"," ","n","o">>,
          <<"c","r","e","d","i","t"," ","s","u","m","m","a","r","y">>,
          <<"p","a","y","m","e","n","t"," ","h","i","s","t","o","r","y">>,
          <<"i","n","f","o","r","m","a","t","i","o","n"," ","p","r","o","v","i","d","e","r","s">>,
          <<"r","e","s","p","o","n","s","e"," ","i","d">> >>],
     [doc_type |-> "bank_statement", patterns |->
        << <<"b","a","n","k"," ","s","t","a","t","e","m","e","n","t">>,
          <<"a","c","c","o","u","n","t"," ","s","t","a","t","e","m","e","n","t">>,
          <<"t","r","a","n","s","a","c","t","i","o","n"," ","h","i","s","t","o","r","y">>,
          <<"a","c","c","o","u","n","t"," ","d","e","t","a","i","l","s">>,
          <<"o","p","e","n","i","n","g"," ","b","a","l","a","n","c","e">>,
          <<"c","l","o","s","i","n","g"," ","b","a","l","a","n","c","e">>,
          <<"d","e","b","i","t">>,
          <<"c","r","e","d","i","t">>,
          <<"a","c","c","o","u","n","t"," ","b","a","l","a","n","c","e">>,
          <<"e","m","i","r","a","t","e","s"," ","n","b","d">>,
          <<"a","d","c","b">>,
          <<"f","a","b">>,
          <<"m","a","s","h","r","e","q">>,
          <<"r","a","k","b","a","n","k">>,
          <<"s","t","a","t","e","m","e","n","t"," ","f","r","o","m">> >>]
    >>

\* first type, in table order, one of whose patterns occurs in text;
\* UNKNOWN when there is none
RECURSIVE FirstPatternMatch(_, _)
FirstPatternMatch(text, i) ==
    IF i > Len(document_patterns) THEN UNKNOWN
    ELSE IF \E j \in 1..Len(document_patterns[i].patterns) :
                Contains(text, document_patterns[i].patterns[j])
         THEN document_patterns[i].doc_type
         ELSE FirstPatternMatch(text, i + 1)

purpose_to_type ==
    {"emirates_id", "credit_report", "resume", "assets_liabilities",
     "bank_statement"}

\* _classify_document_type (document_processor.py:231-340); content_type is
\* the outcome of the content scoring, which reads the extracted text
ClassifyDocumentType(file_name, document_purpose, content_type) ==
    LET purpose_lower == Lower(document_purpose)
        by_purpose == FirstPatternMatch(Chars(purpose_lower), 1)
        by_filename == FirstPatternMatch(Chars(file_name), 1)
    IN  IF by_purpose # UNKNOWN THEN by_purpose
        ELSE IF purpose_lower \in purpose_to_type THEN purpose_lower
        ELSE IF by_filename # UNKNOWN THEN by_filename
        ELSE content_type

\* _get_file_format (document_processor.py:211-229)
GetFileFormat(p) ==
    LET extension == FileSuffix(p)
    IN  CASE extension = ".pdf" -> "pdf"
          [] extension = ".docx" -> "docx"
          [] extension = ".doc" -> "doc"
          [] extension = ".txt" -> "txt"
          [] extension = ".xlsx" -> "xlsx"
          [] extension = ".xls" -> "xls"
          [] extension \in {".png", ".jpg", ".jpeg", ".tiff", ".bmp"} -> "image"
          [] OTHER -> "pdf"

(***************************************************************************)
(* Structured records: what the field-extraction request returns for a     *)
(* document (the model's answer parsed into a dict).  Nested groups are    *)
(* flattened to their leaf keys; ErrorMarker is the record of a failed or  *)
(* unparseable answer; a record holding the group key "personal_info"      *)
(* itself carries a non-mapping value there (JSON null), on which the      *)
(* mapper's .get raises.                                                   *)
(***************************************************************************)
NoDate == [year |-> 0, month |-> 0, day |-> 0]

ErrorMarker == ("error" :> "Could not parse structured response")

MalformedRecord == ("personal_info" :> "null") @@ ("confidence_score" :> 50)

EmiratesRecords ==
    { ("full_name" :> "Ali") @@ ("address" :> "Dubai")
        @@ ("date_of_birth" :> [year |-> 1990, month |-> 3, day |-> 20])
        @@ ("confidence_score" :> 90),
      ErrorMarker,
      MalformedRecord }

ResumeRecords ==
    { ("name" :> "Sara") @@ ("current_employment_status" :> "unemployed")
        @@ ("education" :> << >>) @@ ("confidence_score" :> 80),
      ("current_employment_status" :> "full_time")
        @@ ("education" :> <<"bachelor of science">>)
        @@ ("confidence_score" :> 70) }

BankStatementRecords ==
    { ("account_holder_name" :> "Badr") @@ ("average_monthly_salary" :> 2000)
        @@ ("confidence_score" :> 85),
      ("average_monthly_salary" :> 0) @@ ("confidence_score" :> 60) }

CreditReportRecords ==
    { ("name" :> "Carim") @@ ("address" :> "Sharjah")
        @@ ("date_of_birth" :> [year |-> 1950, month |-> 12, day |-> 31])
        @@ ("confidence_score" :> 75),
      ErrorMarker }

AssetsRecords ==
    { ("cash_and_equivalents" :> 15000) @@ ("property_value" :> 250000)
        @@ ("total_liabilities" :> 0) @@ ("confidence_score" :> 80) }

UnknownRecords == { ("confidence_score" :> 40) }

\* the records _process_by_document_type can return for a type
\* (document_processor.py:692-711)
StructuredRecords(doc_type) ==
    CASE doc_type = "emirates_id" -> EmiratesRecords
      [] doc_type = "resume" -> ResumeRecords
      [] doc_type = "bank_statement" -> BankStatementRecords
      [] doc_type = "credit_report" -> CreditReportRecords
      [] doc_type = "assets_liabilities" -> AssetsRecords
      [] OTHER -> UnknownRecords

\* outcomes of the content scoring for an unlabelled document
ContentTypes == {UNKNOWN, "credit_report"}

\* process_document's result (document_processor.py:180-209)
ProcessDocument(file_path, document_purpose, content_type, structured_data) ==
    [document_type |->
        ClassifyDocumentType(file_path, document_purpose, content_type),
     file_format |-> GetFileFormat(file_path),
     structured_data |-> structured_data,
     confidence_score |-> Get(structured_data, "confidence_score", 0)]

(***************************************************************************)
(* Profile merger (document_processor.py:1166-1418).                       *)
(***************************************************************************)
\* datetime.now() of the merge
Today == [year |-> 2026, month |-> 3, day |-> 19]

\* (m1, d1) < (m2, d2) on Python tuples
TupleLess(m1, d1, m2, d2) == m1 < m2 \/ (m1 = m2 /\ d1 < d2)

\* only the months are compared
CalculateAge_IgnoresDay(date_of_birth, today) ==
    IF date_of_birth = NoDate THEN 0
    ELSE today.year - date_of_birth.year
         - (IF today.month < date_of_birth.month THEN 1 ELSE 0)

\* _calculate_age (document_processor.py:1406-1418)
CalculateAge(date_of_birth, today) ==
    IF date_of_birth = NoDate THEN 0
    ELSE today.year - date_of_birth.year
         - (IF TupleLess(today.month, today.day,
                         date_of_birth.month, date_of_birth.day)
            THEN 1 ELSE 0)

education_levels ==
    << <<"phd", 6>>, <<"doctorate", 6>>, <<"doctoral", 6>>,
       <<"master", 5>>, <<"masters", 5>>, <<"mba", 5>>,
       <<"bachelor", 4>>, <<"bachelors", 4>>, <<"degree", 4>>,
       <<"diploma", 3>>, <<"associate", 3>>,
       <<"high school", 2>>, <<"secondary", 2>>,
       <<"primary", 1>>, <<"elementary", 1>> >>

\* index of the first level name occurring in the degree, 0 when none
RECURSIVE FirstLevel(_, _)
FirstLevel(degree, i) ==
    IF i > Len(education_levels) THEN 0
    ELSE IF Contains(Chars(degree), Chars(education_levels[i][1])) THEN i
    ELSE FirstLevel(degree, i + 1)

\* the loop over the education entries: best is <<highest_level, degree>>
RECURSIVE HighestDegree(_, _, _)
HighestDegree(education, i, best) ==
    IF i > Len(education) THEN best
    ELSE LET l == FirstLevel(education[i], 1)
         IN  IF l # 0 /\ education_levels[l][2] > best[1]
             THEN HighestDegree(education, i + 1,
                                <<education_levels[l][2], education_levels[l][1]>>)
             ELSE HighestDegree(education, i + 1, best)

\* _determine_education_level (document_processor.py:1420-1445)
DetermineEducationLevel(education) ==
    IF education = << >> THEN "unknown"
    ELSE LET highest_degree == HighestDegree(education, 1, <<0, "unknown">>)[2]
         IN  IF highest_degree # "unknown" THEN highest_degree
             ELSE "high_school"

\* the mapper's .get on a group that is not a mapping raises
Malformed(data) == HasKey(data, "personal_info")

\* the name is written only while applicant_info has none
MapEmiratesIdData_FillsNameOnly(data, ad) ==
    [ad EXCEPT
        !.applicant_info = Update(@,
            ("name" :> IF Truthy(Get(@, "name", ""))
                       THEN @["name"] ELSE Get(data, "full_name", ""))
            @@ ("age" :> CalculateAge(Get(data, "date_of_birth", NoDate), Today))
            @@ ("address" :> Get(data, "address", ""))
            @@ ("nationality" :> Get(data, "nationality", ""))
            @@ ("id_number" :> Get(data, "id_number", ""))),
        !.demographic_info = Update(@,
            ("gender" :> Get(data, "gender", ""))
            @@ ("nationality" :> Get(data, "nationality", ""))
            @@ ("emirate" :> Get(data, "emirate", "")))]

\* _map_emirates_id_data (document_processor.py:1215-1232)
MapEmiratesIdData(data, ad) ==
    [ad EXCEPT
        !.applicant_info = Update(@,
            ("name" :> Get(data, "full_name", ""))
            @@ ("age" :> CalculateAge(Get(data, "date_of_birth", NoDate), Today))
            @@ ("address" :> Get(data, "address", ""))
            @@ ("nationality" :> Get(data, "nationality", ""))
            @@ ("id_number" :> Get(data, "id_number", ""))),
        !.demographic_info = Update(@,
            ("gender" :> Get(data, "gender", ""))
            @@ ("nationality" :> Get(data, "nationality", ""))
            @@ ("emirate" :> Get(data, "emirate", "")))]

\* _map_resume_data (document_processor.py:1234-1268)
MapResumeData(data, ad) ==
    [ad EXCEPT
        !.applicant_info =
            IF ~Truthy(Get(@, "name", ""))
            THEN Update(@, "name" :> Get(data, "name", ""))
            ELSE @,
        !.employment_info = Update(@,
            ("current_status" :>
                Get(data, "current_employment_status", "unemployed"))
            @@ ("total_experience_years" :>
                Get(data, "total_experience_years", 0))
            @@ ("education_level" :>
                DetermineEducationLevel(Get(data, "education", << >>)))),
        !.demographic_info = Update(@,
            "education_level" :>
                DetermineEducationLevel(Get(data, "education", << >>)))]

\* _map_assets_data (document_processor.py:1270-1289)
MapAssetsData(data, ad) ==
    [ad EXCEPT
        !.wealth_info = Update(@,
            ("savings" :> Get(data, "cash_and_equivalents", 0))
            @@ ("property_value" :> Get(data, "property_value", 0))
            @@ ("total_assets" :> Get(data, "total_assets", 0))
            @@ ("total_debts" :> Get(data, "total_liabilities", 0))
            @@ ("net_worth" :> Get(data, "net_worth", 0)))]

\* _map_credit_data (document_processor.py:1291-1339)
MapCreditData(data, ad) ==
    LET a1 == IF ~Truthy(Get(ad.applicant_info, "name", ""))
                 /\ Truthy(Get(data, "name", ""))
              THEN Update(ad.applicant_info, "name" :> data["name"])
              ELSE ad.applicant_info
        a2 == IF ~TruthyNumber(Get(a1, "age", 0))
                 /\ Get(data, "date_of_birth", NoDate) # NoDate
              THEN Update(a1, "age" :> CalculateAge(data["date_of_birth"], Today))
              ELSE a1
        a3 == IF Truthy(Get(data, "email", ""))
              THEN Update(a2, "email" :> data["email"])
              ELSE a2
        a4 == IF Truthy(Get(data, "phone", ""))
              THEN Update(a3, "phone" :> data["phone"])
              ELSE a3
        fill_address == ~Truthy(Get(a4, "address", ""))
                        /\ HasKey(data, "address")
        a5 == IF fill_address
              THEN Update(a4, "address" :> data["address"])
              ELSE a4
    IN  [ad EXCEPT
            !.applicant_info = a5,
            !.demographic_info = Update(@,
                ("gender" :> Get(data, "gender", ""))
                @@ ("nationality" :> Get(data, "nationality", ""))),
            !.wealth_info = Update(@,
                ("credit_score" :> Get(data, "credit_score", 0))
                @@ ("credit_rating" :> Get(data, "credit_rating", "")))]

\* a status already in the profile is kept
MapBankStatementData_KeepsStatus(data, ad) ==
    LET salary == Get(data, "average_monthly_salary", 0)
    IN  [ad EXCEPT
            !.applicant_info =
                IF ~Truthy(Get(@, "name", ""))
                   /\ Truthy(Get(data, "account_holder_name", ""))
                THEN Update(@, "name" :> data["account_holder_name"])
                ELSE @,
            !.income_info = Update(@,
                ("monthly_income" :> salary)
                @@ ("annual_income" :> salary * 12)),
            !.wealth_info = Update(@,
                ("monthly_income" :> Get(data, "total_monthly_income", 0))
                @@ ("monthly_expenses" :>
                    Get(data, "average_monthly_spending", 0))),
            !.employment_info =
                IF salary > 0 /\ ~HasKey(@, "current_status")
                THEN Update(@, ("current_status" :> "employed")
                               @@ ("monthly_salary" :> salary))
                ELSE @]

\* _map_bank_statement_data (document_processor.py:1341-1404)
MapBankStatementData(data, ad) ==
    LET salary == Get(data, "average_monthly_salary", 0)
    IN  [ad EXCEPT
            !.applicant_info =
                IF ~Truthy(Get(@, "name", ""))
                   /\ Truthy(Get(data, "account_holder_name", ""))
                THEN Update(@, "name" :> data["account_holder_name"])
                ELSE @,
            !.income_info = Update(@,
                ("monthly_income" :> salary)
                @@ ("annual_income" :> salary * 12)),
            !.wealth_info = Update(@,
                ("monthly_income" :> Get(data, "total_monthly_income", 0))
                @@ ("monthly_expenses" :>
                    Get(data, "average_monthly_spending", 0))),
            !.employment_info =
                IF salary > 0
                THEN Update(@, ("current_status" :> "employed")
                               @@ ("monthly_salary" :> salary))
                ELSE @]

\* application id generated from the clock when none is given:
\* f"APP-{datetime.now().strftime('%Y%m%d-%H%M%S')}"
GeneratedApplicationId(now) == "APP-" \o ToString(now)

\* no application id: None, or a falsy value
NoId == ""

\* one step of the loop over processed_documents
MergeDocument(doc, ad) ==
    LET data == doc.structured_data
        ad1 == [ad EXCEPT !.document_sources = Append(@,
                    [type |-> doc.document_type,
                     confidence |-> Get(data, "confidence_score", 0),
                     file_format |-> doc.file_format])]
    IN  CASE doc.document_type = "emirates_id" -> MapEmiratesIdData(data, ad1)
          [] doc.document_type = "resume" -> MapResumeData(data, ad1)
          [] doc.document_type = "assets_liabilities" -> MapAssetsData(data, ad1)
          [] doc.document_type = "credit_report" -> MapCreditData(data, ad1)
          [] doc.document_type = "bank_statement" ->
                MapBankStatementData(data, ad1)
          [] OTHER -> ad1

RECURSIVE MergeAll(_, _, _)
MergeAll(processed_documents, i, ad) ==
    IF i > Len(processed_documents) THEN ad
    ELSE MergeAll(processed_documents, i + 1,
                  MergeDocument(processed_documents[i], ad))

\* a mapper also raises on a record without the groups it reads
ConvertRaises_OnErrorMarker(processed_documents) ==
    \E i \in 1..Len(processed_documents) :
        /\ processed_documents[i].document_type \in
              {"emirates_id", "credit_report"}
        /\ \/ Malformed(processed_documents[i].structured_data)
           \/ HasKey(processed_documents[i].structured_data, "error")

\* the mappers that read nested groups raise on a malformed record
ConvertRaises(processed_documents) ==
    \E i \in 1..Len(processed_documents) :
        /\ processed_documents[i].document_type \in
              {"emirates_id", "credit_report"}
        /\ Malformed(processed_documents[i].structured_data)

\* the profile starts without the family group
ConvertToAssessmentFormat_NoFamilyGroup(processed_documents, application_id, now) ==
    MergeAll(processed_documents, 1,
        [application_id |-> IF application_id = NoId
                            THEN GeneratedApplicationId(now)
                            ELSE application_id,
         applicant_info |-> EmptyDict,
         income_info |-> EmptyDict,
         employment_info |-> EmptyDict,
         wealth_info |-> EmptyDict,
         demographic_info |-> EmptyDict,
         document_sources |-> << >>])

\* convert_to_assessment_format (document_processor.py:1166-1213)
ConvertToAssessmentFormat(processed_documents, application_id, now) ==
    MergeAll(processed_documents, 1,
        [application_id |-> IF application_id = NoId
                            THEN GeneratedApplicationId(now)
                            ELSE application_id,
         applicant_info |-> EmptyDict,
         income_info |-> EmptyDict,
         employment_info |-> EmptyDict,
         family_info |-> EmptyDict,
         wealth_info |-> EmptyDict,
         demographic_info |-> EmptyDict,
         document_sources |-> << >>])

(***************************************************************************)
(* Assessment engine (assessment_agent.py).  Scores are in hundredths, the *)
(* overall score in ten-thousandths; NotANumber stands for a value of the  *)
(* wrong type (text where a number is expected), on which a comparison or  *)
(* an arithmetic operation raises TypeError.                               *)
(***************************************************************************)
NotANumber == -999999

\* _get_default_criteria (assessment_agent.py:73-110)
moderate_income_threshold == 75000

\* family_size_multipliers, in tenths
FamilySizeMultiplier10(family_size) ==
    CASE family_size > 5 -> 25
      [] family_size = 1 -> 10
      [] family_size = 2 -> 13
      [] family_size = 3 -> 16
      [] family_size = 4 -> 19
      [] family_size = 5 -> 22
      [] OTHER -> 10

\* employment_stability_weights, in hundredths
EmploymentStabilityWeight(current_status) ==
    CASE current_status = "unemployed" -> 100
      [] current_status = "part_time" -> 70
      [] current_status = "temporary" -> 60
      [] current_status = "full_time" -> 30
      [] current_status = "self_employed" -> 50
      [] OTHER -> 50

savings_threshold == 10000
property_value_threshold == 200000

\* data.get(group, {})
Group(data, group) == Get(data, group, EmptyDict)

Min(a, b) == IF a < b THEN a ELSE b
Max(a, b) == IF a > b THEN a ELSE b

\* the validation stops at the first missing group
ValidateApplicationData_FirstMissingOnly(data) ==
    LET required_fields == <<"applicant_info", "income_info",
                             "employment_info", "family_info">>
        missing_groups == SelectSeq(required_fields,
                                    LAMBDA f : f \notin DOMAIN data)
        errors == IF missing_groups = << >> THEN << >>
                  ELSE << <<"Missing required field", missing_groups[1]>> >>
    IN  [valid |-> Len(errors) = 0, errors |-> errors]

\* _validate_application_data (assessment_agent.py:177-201)
ValidateApplicationData(data) ==
    LET required_fields == <<"applicant_info", "income_info",
                             "employment_info", "family_info">>
        applicant_required == <<"name", "age", "address">>
        missing_groups == SelectSeq(required_fields,
                                    LAMBDA f : f \notin DOMAIN data)
        missing_keys ==
            IF "applicant_info" \in DOMAIN data
            THEN SelectSeq(applicant_required,
                           LAMBDA f : f \notin DOMAIN data.applicant_info)
            ELSE << >>
        errors == [i \in 1..Len(missing_groups) |->
                      <<"Missing required field", missing_groups[i]>>]
                  \o [i \in 1..Len(missing_keys) |->
                      <<"Missing applicant info", missing_keys[i]>>]
    IN  [valid |-> Len(errors) = 0, errors |-> errors]

\* the bands exclude their upper bounds
AssessIncomeEligibility_StrictBands(data) ==
    LET annual_income == Get(Group(data, "income_info"), "annual_income", 0)
        family_size == Get(Group(data, "family_info"), "family_size", 1)
        threshold10 == moderate_income_threshold
                       * FamilySizeMultiplier10(family_size)
        RatioBelow(b) == annual_income * 100 < b * threshold10
    IN  IF RatioBelow(4) THEN 100
        ELSE IF RatioBelow(7) THEN 80
        ELSE IF RatioBelow(10) THEN 50
        ELSE 20

\* _assess_income_eligibility (assessment_agent.py:203-262): the score, with
\* threshold10 the adjusted threshold in tenths
AssessIncomeEligibility(data) ==
    LET annual_income == Get(Group(data, "income_info"), "annual_income", 0)
        family_size == Get(Group(data, "family_info"), "family_size", 1)
        threshold10 == moderate_income_threshold
                       * FamilySizeMultiplier10(family_size)
        \* income_ratio <= b/10
        RatioAtMost(b) == annual_income * 100 <= b * threshold10
    IN  IF RatioAtMost(4) THEN 100
        ELSE IF RatioAtMost(7) THEN 80
        ELSE IF RatioAtMost(10) THEN 50
        ELSE 20

\* the dict _assess_income_eligibility returns (assessment_agent.py:254-262)
IncomeAssessment(data) ==
    LET score == AssessIncomeEligibility(data)
        family_size == Get(Group(data, "family_info"), "family_size", 1)
    IN  [score |-> score,
         priority |-> CASE score = 100 -> "high"
                        [] score = 80 -> "medium"
                        [] score = 50 -> "low"
                        [] OTHER -> "very_low",
         adjusted_threshold |->
             (moderate_income_threshold
              * FamilySizeMultiplier10(family_size)) \div 10,
         meets_criteria |-> score >= 50]

\* _assess_employment_history (assessment_agent.py:264-306)
AssessEmploymentHistory(data) ==
    LET current_status ==
            Get(Group(data, "employment_info"), "current_status", "unemployed")
        months_unemployed == Get(Group(data, "employment_info"), "months_unemployed", 0)
        stability_weight == EmploymentStabilityWeight(current_status)
        unemployment_penalty ==
            IF months_unemployed > 0 THEN Min(months_unemployed * 10, 50)
            ELSE 0
    IN  Max(0, stability_weight + unemployment_penalty)

\* the applicant counts as a dependent when none is given
AssessFamilySituation_DefaultDependent(data) ==
    LET family_size == Get(Group(data, "family_info"), "family_size", 1)
        dependents == Get(Group(data, "family_info"), "dependents", 1)
        special_circumstances ==
            Get(Group(data, "family_info"), "special_circumstances", {})
        base == IF family_size > 0 THEN (dependents * 60) \div family_size
                ELSE 0
        family_score ==
            base
            + (IF "single_parent" \in special_circumstances THEN 30 ELSE 0)
            + (IF "elderly_care" \in special_circumstances THEN 20 ELSE 0)
            + (IF "disabled_member" \in special_circumstances THEN 40 ELSE 0)
    IN  Min(family_score, 100)

\* _assess_family_situation (assessment_agent.py:308-362)
AssessFamilySituation(data) ==
    LET family_size == Get(Group(data, "family_info"), "family_size", 1)
        dependents == Get(Group(data, "family_info"), "dependents", 0)
        special_circumstances ==
            Get(Group(data, "family_info"), "special_circumstances", {})
        base == IF family_size > 0 THEN (dependents * 60) \div family_size
                ELSE 0
        family_score ==
            base
            + (IF "single_parent" \in special_circumstances THEN 30 ELSE 0)
            + (IF "elderly_care" \in special_circumstances THEN 20 ELSE 0)
            + (IF "disabled_member" \in special_circumstances THEN 40 ELSE 0)
    IN  Min(family_score, 100)

\* _assess_wealth_status (assessment_agent.py:364-424)
AssessWealthStatus(data) ==
    LET savings == Get(Group(data, "wealth_info"), "savings", 0)
        property_value == Get(Group(data, "wealth_info"), "property_value", 0)
        debts == Get(Group(data, "wealth_info"), "total_debts", 0)
        annual_income == Get(Group(data, "income_info"), "annual_income", 0)
        net_worth == savings + property_value - debts
        \* debt_to_income > 0.4
        high_debt == annual_income > 0 /\ debts * 10 > 4 * annual_income
        wealth_score ==
            (IF savings < savings_threshold THEN 30 ELSE 0)
            + (IF property_value < property_value_threshold THEN 20 ELSE 0)
            + (IF high_debt THEN 40 ELSE 0)
            + (IF net_worth < 0 THEN 30 ELSE 0)
    IN  Min(wealth_score, 100)

\* the dict _assess_wealth_status returns (assessment_agent.py:416-424).
\* wealth_score is a binary floating-point sum: 0.2 + 0.4 is
\* 0.6000000000000001, which is above 0.6, while every other sum of the four
\* increments compares with 0.6 as its decimal value does
WealthAssessment(data) ==
    LET savings == Get(Group(data, "wealth_info"), "savings", 0)
        property_value == Get(Group(data, "wealth_info"), "property_value", 0)
        debts == Get(Group(data, "wealth_info"), "total_debts", 0)
        annual_income == Get(Group(data, "income_info"), "annual_income", 0)
        net_worth == savings + property_value - debts
        score == AssessWealthStatus(data)
        rounded_above ==
            /\ ~(savings < savings_threshold)
            /\ property_value < property_value_threshold
            /\ annual_income > 0 /\ debts * 10 > 4 * annual_income
            /\ ~(net_worth < 0)
    IN  [score |-> score,
         net_worth |-> net_worth,
         financial_stress |-> score > 60 \/ rounded_above,
         needs_financial_counseling |->
             annual_income > 0 /\ debts * 2 > annual_income]

\* _assess_demographic_profile (assessment_agent.py:426-494)
AssessDemographicProfile(data) ==
    LET age == Get(Group(data, "applicant_info"), "age", 0)
        disability_status == Get(Group(data, "demographic_info"), "disability_status", FALSE)
        veteran_status == Get(Group(data, "demographic_info"), "veteran_status", FALSE)
        education_level == Get(Group(data, "demographic_info"), "education_level", "")
        demo_score ==
            (IF age >= 65 THEN 30 ELSE 0)
            + (IF age <= 25 THEN 20 ELSE 0)
            + (IF disability_status THEN 40 ELSE 0)
            + (IF veteran_status THEN 30 ELSE 0)
            + (IF education_level \in {"high_school", "less_than_high_school"}
               THEN 20 ELSE 0)
    IN  Min(demo_score, 100)

\* weights of _generate_comprehensive_assessment, in hundredths
\* (assessment_agent.py:504-516)
OverallScore(income, employment, family, wealth, demographic) ==
    35 * income + 30 * employment + 15 * family + 15 * wealth
    + 5 * demographic

\* the conditional band starts at one half
PreliminaryStatus_HalfBand(overall_score) ==
    IF overall_score >= 8000 THEN "approved"
    ELSE IF overall_score >= 5000 THEN "conditionally_approved"
    ELSE IF overall_score >= 4000 THEN "pending_review"
    ELSE "rejected"

\* preliminary status (assessment_agent.py:518-526)
PreliminaryStatus(overall_score) ==
    IF overall_score >= 8000 THEN "approved"
    ELSE IF overall_score >= 4900 THEN "conditionally_approved"
    ELSE IF overall_score >= 4000 THEN "pending_review"
    ELSE "rejected"

\* final status (assessment_agent.py:620-625)
FinalStatus(overall_score) ==
    IF overall_score < 3000 THEN "rejected"
    ELSE IF overall_score >= 8000 THEN "approved"
    ELSE PreliminaryStatus(overall_score)

\* the upper bound of the review range is excluded
RequiresHumanReview_UpperExclusive(overall_score) ==
    overall_score >= 4000 /\ overall_score < 6000

\* requires_human_review (assessment_agent.py:656)
RequiresHumanReview(overall_score) ==
    overall_score >= 4000 /\ overall_score <= 6000

\* a value of the wrong type reaches a comparison or an operation of the
\* sub-assessments
AssessmentRaises(data) ==
    \/ Get(Group(data, "applicant_info"), "age", 0) = NotANumber
    \/ Get(Group(data, "income_info"), "annual_income", 0) = NotANumber
    \/ Get(Group(data, "wealth_info"), "savings", 0) = NotANumber

\* the number of sub-assessments assess_application enters for a profile
\* (assessment_agent.py:130-145): none when the validation fails, and those
\* up to the one that raises otherwise
SubAssessmentsRun(data) ==
    IF ~ValidateApplicationData(data).valid THEN 0
    ELSE IF Get(Group(data, "income_info"), "annual_income", 0) = NotANumber
    THEN 1
    ELSE IF Get(Group(data, "wealth_info"), "savings", 0) = NotANumber THEN 4
    ELSE 5

\* the scores of a result that carries no individual_assessments
NoScores ==
    [income |-> -1, employment |-> -1, family |-> -1, wealth |-> -1,
     demographic |-> -1]

NoAssessment ==
    [kind |-> "empty", application_id |-> NoId, applicant_name |-> "",
     status |-> "", overall_score |-> -1, individual_assessments |-> NoScores,
     reason |-> << >>, requires_human_review |-> FALSE]

\* assess_application (assessment_agent.py:112-175) with
\* _generate_final_recommendation (assessment_agent.py:563-657): kind tells
\* which of the three returned dicts it is; in the two dicts without
\* application_id, applicant_name and overall_score those fields hold the
\* values of NoAssessment
AssessApplication(data) ==
    LET validation_result == ValidateApplicationData(data)
        individual_scores ==
            [income |-> AssessIncomeEligibility(data),
             employment |-> AssessEmploymentHistory(data),
             family |-> AssessFamilySituation(data),
             wealth |-> AssessWealthStatus(data),
             demographic |-> AssessDemographicProfile(data)]
        overall_score ==
            OverallScore(individual_scores.income,
                         individual_scores.employment,
                         individual_scores.family,
                         individual_scores.wealth,
                         individual_scores.demographic)
    IN  IF ~validation_result.valid
        THEN [NoAssessment EXCEPT !.kind = "insufficient_data",
                                  !.status = "insufficient_data",
                                  !.reason = validation_result.errors]
        ELSE IF AssessmentRaises(data)
        THEN [NoAssessment EXCEPT !.kind = "error",
                                  !.status = "pending_review",
                                  !.reason = << <<"Assessment error">> >>]
        ELSE [kind |-> "scored",
              application_id |-> Get(data, "application_id", "N/A"),
              applicant_name |->
                  IF Truthy(Get(Group(data, "applicant_info"), "name", ""))
                  THEN data.applicant_info["name"]
                  ELSE IF Truthy(Get(Group(data, "applicant_info"),
                                     "full_name", ""))
                  THEN data.applicant_info["full_name"]
                  ELSE "N/A",
              status |-> FinalStatus(overall_score),
              overall_score |-> overall_score,
              individual_assessments |-> individual_scores,
              reason |-> << >>,
              requires_human_review |-> RequiresHumanReview(overall_score)]

(***************************************************************************)
(* The orchestrator (workflow_orchestrator.py).                            *)
(***************************************************************************)
WorkflowIds == {"W1", "W2"}

\* applicant_info hints a caller can pass
ApplicantHints ==
    { EmptyDict,
      ("application_id" :> "A1"),
      ("name" :> "Omar") @@ ("age" :> 40) @@ ("address" :> "Ajman"),
      ("age" :> 40) @@ ("address" :> "Ajman"),
      ("application_id" :> "A1") @@ ("age" :> NotANumber) }

RECURSIVE SeqsUpTo(_, _)
SeqsUpTo(S, n) ==
    IF n = 0 THEN { << >> }
    ELSE LET shorter == SeqsUpTo(S, n - 1)
         IN  shorter \cup { Append(s, x) : s \in shorter, x \in S }

\* the batches of a single run
Batches == SeqsUpTo(Documents, MaxDocs)

\* the batches of a sequence of runs on one output directory
RerunDocuments ==
    { [file_path |-> "eid.pdf", purpose |-> "emirates_id"],
      [file_path |-> "gone.pdf", purpose |-> "emirates_id"] }

RerunBatches == SeqsUpTo(RerunDocuments, 1)

NoTime == -1
NoReport == [kind |-> "absent", final_decision |-> ""]

\* what _generate_comprehensive_report can return: the model's report with
\* its executive summary, or the error dict of a failed call, each with
\* report_metadata added (workflow_orchestrator.py:384-408)
Reports ==
    { [kind |-> "report", final_decision |-> "model decision"],
      [kind |-> "error", final_decision |-> ""] }

VARIABLES
    workflow_state,       \* the WorkflowState dict of the current run
    pc,                   \* position of the run in process_application_workflow
    doc_index,            \* the document the processing loop is at
    processed_documents,  \* the local list of the processing loop
    assessment_data,      \* the merged profile
    output_dir,           \* the files under the output directory
    clock,                \* datetime.now(), in seconds
    runs,                 \* number of runs started
    extract_calls,        \* document_processor.execute calls of the run
    assess_calls,         \* assess_application calls of the run
    assessment_result,    \* what assess_application returned
    sub_assessments,      \* sub-assessments entered by that call
    persisted,            \* history: the runs saved, oldest first
    outcomes              \* history: what execute did for each document

vars == <<workflow_state, pc, doc_index, processed_documents, assessment_data,
          output_dir, clock, runs, extract_calls, assess_calls,
          assessment_result, sub_assessments, persisted, outcomes>>

NoWorkflow ==
    [workflow_id |-> "", status |-> "", start_time |-> NoTime,
     documents |-> << >>, applicant_info |-> EmptyDict,
     processed_documents |-> << >>, assessment_result |-> NoAssessment,
     errors |-> << >>, warnings |-> << >>,
     comprehensive_report |-> NoReport, end_time |-> NoTime,
     duration |-> NoTime]

NoAssessmentData ==
    [application_id |-> NoId, applicant_info |-> EmptyDict,
     income_info |-> EmptyDict, employment_info |-> EmptyDict,
     family_info |-> EmptyDict, wealth_info |-> EmptyDict,
     demographic_info |-> EmptyDict, document_sources |-> << >>]

Init ==
    /\ workflow_state = NoWorkflow
    /\ pc = "idle"
    /\ doc_index = 0
    /\ processed_documents = << >>
    /\ assessment_data = NoAssessmentData
    /\ output_dir = [dirs |-> EmptyDict, root |-> EmptyDict]
    /\ clock = 0
    /\ runs = 0
    /\ extract_calls = 0
    /\ assess_calls = 0
    /\ assessment_result = NoAssessment
    /\ sub_assessments = 0
    /\ persisted = << >>
    /\ outcomes = << >>

\* time passes
Tick ==
    /\ clock < MaxClock
    /\ UNCHANGED <<assessment_result, sub_assessments>>
    /\ clock' = clock + 1
    /\ UNCHANGED <<workflow_state, pc, doc_index, processed_documents,
                   assessment_data, output_dir, runs, extract_calls,
                   assess_calls, persisted,
                   outcomes>>

\* process_application_workflow is entered: the state dict is built
\* (workflow_orchestrator.py:119-137)
StartWorkflow(workflow_ids, batches, max_runs) ==
    /\ pc \in {"idle", "returned"}
    /\ runs < max_runs
    /\ \E workflow_id \in workflow_ids, documents \in batches,
          applicant_info \in ApplicantHints :
          workflow_state' =
              [NoWorkflow EXCEPT !.workflow_id = workflow_id,
                                 !.status = INITIATED,
                                 !.start_time = clock,
                                 !.documents = documents,
                                 !.applicant_info = applicant_info]
    /\ pc' = "begin"
    /\ runs' = runs + 1
    /\ doc_index' = 0
    /\ processed_documents' = << >>
    /\ assessment_data' = NoAssessmentData
    /\ extract_calls' = 0
    /\ assess_calls' = 0
    /\ assessment_result' = NoAssessment
    /\ sub_assessments' = 0
    /\ outcomes' = << >>
    /\ UNCHANGED <<output_dir, clock, persisted>>

\* workflow_orchestrator.py:141
BeginProcessing ==
    /\ pc = "begin"
    /\ UNCHANGED <<assessment_result, sub_assessments>>
    /\ workflow_state' = [workflow_state EXCEPT !.status = PROCESSING_DOCUMENTS]
    /\ pc' = "validate"
    /\ UNCHANGED <<doc_index, processed_documents, assessment_data, output_dir,
                   clock, runs, extract_calls, assess_calls, persisted,
                   outcomes>>

\* the validation gate (workflow_orchestrator.py:142-150)
ValidationGate ==
    /\ pc = "validate"
    /\ UNCHANGED <<assessment_result, sub_assessments>>
    /\ LET validation_result == ValidateDocuments(workflow_state.documents)
       IN  IF ~validation_result.valid
           THEN /\ workflow_state' =
                      [workflow_state EXCEPT
                          !.errors = @ \o validation_result.errors,
                          !.status = FAILED]
                /\ pc' = "returned"
                /\ UNCHANGED doc_index
           ELSE /\ pc' = "process"
                /\ doc_index' = 1
                /\ UNCHANGED workflow_state
    /\ processed_documents' = << >>
    /\ UNCHANGED <<assessment_data, output_dir, clock, runs, extract_calls,
                   assess_calls, persisted,
                   outcomes>>

\* the empty extracted_data of an error result (document_processor.py:154-158)
NoData ==
    [document_type |-> UNKNOWN, file_format |-> "", structured_data |-> EmptyDict,
     confidence_score |-> 0]

\* a failed document is recorded first in the list
RecordSuccess_Prepends(processed, extracted_data) ==
    <<extracted_data>> \o processed

\* processed_documents.append(result["extracted_data"])
\* (workflow_orchestrator.py:158-159)
RecordSuccess(processed, extracted_data) == Append(processed, extracted_data)

\* one iteration of the processing loop (workflow_orchestrator.py:151-164):
\* document_processor.execute returns success with the extracted data,
\* returns an error status, or raises
ProcessNextDocument ==
    /\ pc = "process"
    /\ UNCHANGED <<assessment_result, sub_assessments>>
    /\ doc_index <= Len(workflow_state.documents)
    /\ LET doc_info == workflow_state.documents[doc_index]
           purpose == DocPurpose(doc_info, "unknown")
       IN  \/ \E content_type \in ContentTypes :
                  LET doc_type == ClassifyDocumentType(doc_info.file_path,
                                                       purpose, content_type)
                  IN  \E structured_data \in StructuredRecords(doc_type) :
                          LET extracted_data ==
                                  ProcessDocument(doc_info.file_path, purpose,
                                                  content_type, structured_data)
                          IN  /\ processed_documents' =
                                     RecordSuccess(processed_documents,
                                                   extracted_data)
                              /\ outcomes' =
                                     Append(outcomes,
                                            [status |-> "success",
                                             extracted_data |-> extracted_data])
                              /\ UNCHANGED workflow_state
           \/ /\ workflow_state' =
                     [workflow_state EXCEPT !.errors =
                         Append(@, <<"Failed to process", doc_info.file_path>>)]
              /\ outcomes' = Append(outcomes, [status |-> "error",
                                               extracted_data |-> NoData])
              /\ UNCHANGED processed_documents
           \/ /\ workflow_state' =
                     [workflow_state EXCEPT !.errors =
                         Append(@, <<"Document processing error for",
                                     doc_info.file_path>>)]
              /\ outcomes' = Append(outcomes, [status |-> "raised",
                                               extracted_data |-> NoData])
              /\ UNCHANGED processed_documents
    /\ doc_index' = doc_index + 1
    /\ extract_calls' = extract_calls + 1
    /\ UNCHANGED <<pc, assessment_data, output_dir, clock, runs, assess_calls,
                   persisted>>

\* the merge is entered without looking at the list
DocumentsProcessed_AlwaysConverts ==
    /\ pc = "process"
    /\ UNCHANGED <<assessment_result, sub_assessments>>
    /\ doc_index > Len(workflow_state.documents)
    /\ workflow_state' =
           [workflow_state EXCEPT !.processed_documents = processed_documents,
                                  !.status = DOCUMENTS_PROCESSED]
    /\ pc' = "convert"
    /\ UNCHANGED <<doc_index, processed_documents, assessment_data, output_dir,
                   clock, runs, extract_calls, assess_calls, persisted,
                   outcomes>>

\* the loop is over (workflow_orchestrator.py:166-170)
DocumentsProcessed ==
    /\ pc = "process"
    /\ UNCHANGED <<assessment_result, sub_assessments>>
    /\ doc_index > Len(workflow_state.documents)
    /\ workflow_state' =
           [workflow_state EXCEPT !.processed_documents = processed_documents,
                                  !.status = DOCUMENTS_PROCESSED]
    /\ pc' = IF processed_documents # << >> THEN "convert" ELSE "no_documents"
    /\ UNCHANGED <<doc_index, processed_documents, assessment_data, output_dir,
                   clock, runs, extract_calls, assess_calls, persisted,
                   outcomes>>

\* the else branch (workflow_orchestrator.py:201-203)
NoDocumentsProcessed ==
    /\ pc = "no_documents"
    /\ UNCHANGED <<assessment_result, sub_assessments>>
    /\ workflow_state' =
           [workflow_state EXCEPT
               !.errors = Append(@, <<"No documents were successfully processed">>),
               !.status = FAILED]
    /\ pc' = "finish"
    /\ UNCHANGED <<doc_index, processed_documents, assessment_data, output_dir,
                   clock, runs, extract_calls, assess_calls, persisted,
                   outcomes>>

\* the except branch of the workflow (workflow_orchestrator.py:213-218)
ExceptionHandler(state, message, now) ==
    [state EXCEPT !.status = FAILED,
                  !.errors = Append(@, message),
                  !.end_time = now]

\* the hints are written first and the merged values over them
ConvertDocuments_HintsFillGaps ==
    /\ pc = "convert"
    /\ UNCHANGED <<assessment_result, sub_assessments>>
    /\ IF ConvertRaises(processed_documents)
       THEN /\ workflow_state' =
                   ExceptionHandler(workflow_state,
                                    <<"'NoneType' object has no attribute 'get'">>,
                                    clock)
            /\ pc' = "returned"
            /\ UNCHANGED assessment_data
       ELSE LET applicant_info == workflow_state.applicant_info
                original_application_id ==
                    Get(applicant_info, "application_id", NoId)
                converted ==
                    ConvertToAssessmentFormat(processed_documents,
                                              original_application_id, clock)
            IN  /\ assessment_data' =
                       [converted EXCEPT !.applicant_info =
                           Update(applicant_info, @)]
                /\ workflow_state' =
                       [workflow_state EXCEPT !.status = RUNNING_ASSESSMENT]
                /\ pc' = "assess"
    /\ UNCHANGED <<doc_index, processed_documents, output_dir, clock, runs,
                   extract_calls, assess_calls, persisted,
                   outcomes>>

\* merge of the processed documents and of the caller's hints
\* (workflow_orchestrator.py:170-184)
ConvertDocuments ==
    /\ pc = "convert"
    /\ UNCHANGED <<assessment_result, sub_assessments>>
    /\ IF ConvertRaises(processed_documents)
       THEN /\ workflow_state' =
                   ExceptionHandler(workflow_state,
                                    <<"'NoneType' object has no attribute 'get'">>,
                                    clock)
            /\ pc' = "returned"
            /\ UNCHANGED assessment_data
       ELSE LET applicant_info == workflow_state.applicant_info
                original_application_id ==
                    Get(applicant_info, "application_id", NoId)
                converted ==
                    ConvertToAssessmentFormat(processed_documents,
                                              original_application_id, clock)
            IN  /\ assessment_data' =
                       [converted EXCEPT !.applicant_info =
                           Update(@, applicant_info)]
                /\ workflow_state' =
                       [workflow_state EXCEPT !.status = RUNNING_ASSESSMENT]
                /\ pc' = "assess"
    /\ UNCHANGED <<doc_index, processed_documents, output_dir, clock, runs,
                   extract_calls, assess_calls, persisted,
                   outcomes>>

\* a result without a score is taken for a failure of the run
RunAssessment_DegradedFails ==
    /\ pc = "assess"
    /\ assessment_result' = AssessApplication(assessment_data)
    /\ sub_assessments' = SubAssessmentsRun(assessment_data)
    /\ workflow_state' =
           [workflow_state EXCEPT
               !.assessment_result = assessment_result',
               !.status = IF assessment_result'.kind = "scored"
                          THEN ASSESSMENT_COMPLETE ELSE FAILED]
    /\ assess_calls' = assess_calls + 1
    /\ pc' = IF assessment_result'.kind = "scored" THEN "report" ELSE "returned"
    /\ UNCHANGED <<doc_index, processed_documents, assessment_data, output_dir,
                   clock, runs, extract_calls, persisted,
                   outcomes>>

\* the assessment (workflow_orchestrator.py:185-188)
RunAssessment ==
    /\ pc = "assess"
    /\ assessment_result' = AssessApplication(assessment_data)
    /\ sub_assessments' = SubAssessmentsRun(assessment_data)
    /\ workflow_state' =
           [workflow_state EXCEPT
               !.assessment_result = assessment_result',
               !.status = ASSESSMENT_COMPLETE]
    /\ assess_calls' = assess_calls + 1
    /\ pc' = "report"
    /\ UNCHANGED <<doc_index, processed_documents, assessment_data, output_dir,
                   clock, runs, extract_calls, persisted,
                   outcomes>>

\* the comprehensive report (workflow_orchestrator.py:190-196); when the
\* model's answer parses to something that is not a mapping, adding
\* report_metadata raises
GenerateReport ==
    /\ pc = "report"
    /\ UNCHANGED <<assessment_result, sub_assessments>>
    /\ \/ \E report \in Reports :
              /\ workflow_state' =
                     [workflow_state EXCEPT !.comprehensive_report = report,
                                            !.status = COMPLETED]
              /\ pc' = "save"
       \/ /\ workflow_state' =
                 ExceptionHandler(workflow_state,
                                  <<"list indices must be integers">>, clock)
          /\ pc' = "returned"
    /\ UNCHANGED <<doc_index, processed_documents, assessment_data, output_dir,
                   clock, runs, extract_calls, assess_calls, persisted,
                   outcomes>>

\* dict.get on the assessment result: application_id, applicant_name and
\* overall_score are keys of the scored result only
ResultHas(result, key) ==
    CASE key = "status" -> result.kind # "empty"
      [] key = "reason" -> result.kind \in {"insufficient_data", "error"}
      [] OTHER -> result.kind = "scored"

\* the key is taken from the caller's applicant_info alone, the identifier
\* carried by the assessment result is not looked at
PersistenceKey_IgnoresResult(workflow_id, state) ==
    IF Get(state.applicant_info, "application_id", NoId) = NoId
    THEN workflow_id
    ELSE state.applicant_info["application_id"]

\* the directory key chosen by _save_workflow_results
\* (workflow_orchestrator.py:413-427)
PersistenceKey(workflow_id, state) ==
    LET from_result ==
            IF state.assessment_result.kind # "empty"
               /\ ResultHas(state.assessment_result, "application_id")
            THEN state.assessment_result.application_id
            ELSE NoId
        from_hints ==
            IF from_result = NoId
            THEN Get(state.applicant_info, "application_id", NoId)
            ELSE from_result
    IN  IF from_hints = NoId THEN workflow_id ELSE from_hints

\* the summary stores the directory key where the workflow id belongs
Summary_WrongWorkflowId(application_id, workflow_id, state) ==
    LET result == state.assessment_result
    IN  [application_id |-> application_id,
         workflow_id |-> application_id,
         status |-> state.status,
         applicant_name |-> IF result.kind = "scored"
                            THEN result.applicant_name ELSE "N/A",
         final_decision |-> IF result.kind # "empty"
                            THEN result.status ELSE "N/A",
         overall_score |-> IF result.kind = "scored"
                           THEN result.overall_score ELSE 0,
         processing_time |-> state.duration,
         documents_processed |-> Len(state.processed_documents),
         errors |-> Len(state.errors),
         warnings |-> Len(state.warnings)]

\* summary.json (workflow_orchestrator.py:451-463)
Summary(application_id, workflow_id, state) ==
    LET result == state.assessment_result
    IN  [application_id |-> application_id,
         workflow_id |-> workflow_id,
         status |-> state.status,
         applicant_name |-> IF ResultHas(result, "applicant_name")
                            THEN result.applicant_name ELSE "N/A",
         final_decision |-> IF ResultHas(result, "status")
                            THEN result.status ELSE "N/A",
         overall_score |-> IF ResultHas(result, "overall_score")
                           THEN result.overall_score ELSE 0,
         processing_time |-> state.duration,
         documents_processed |-> Len(state.processed_documents),
         errors |-> Len(state.errors),
         warnings |-> Len(state.warnings)]

\* _generate_application_status (workflow_orchestrator.py:482-537)
GenerateApplicationStatus(state, application_id, now) ==
    LET result == state.assessment_result
        report == state.comprehensive_report
    IN  [application_id |-> application_id,
         processing_status |-> state.status,
         workflow_id |-> state.workflow_id,
         processing_timestamp |-> IF state.end_time # NoTime
                                  THEN state.end_time ELSE now,
         final_decision |-> IF report.kind = "report"
                            THEN report.final_decision
                            ELSE IF ResultHas(result, "status")
                            THEN result.status ELSE "pending",
         overall_score |-> IF ResultHas(result, "overall_score")
                           THEN result.overall_score ELSE 0,
         documents_processed |-> Len(state.processed_documents),
         processing_duration |-> state.duration]

\* the state is stamped with its end before it is written
SavedFiles_StampsEndTime(application_id, workflow_id, state, now) ==
    LET ended == [state EXCEPT !.end_time = now,
                               !.duration = now - state.start_time]
    IN  ("workflow_state.json" :> ended)
        @@ ("assessment_result.json" :> state.assessment_result)
        @@ ("final_judgment.json" :> state.assessment_result)
        @@ ("comprehensive_report.json" :> state.comprehensive_report)
        @@ ("summary.json" :> Summary(application_id, workflow_id, ended))
        @@ ("application_status.json" :>
                GenerateApplicationStatus(ended, application_id, now))

\* the files _save_workflow_results writes into the application's directory
\* (workflow_orchestrator.py:433-471)
SavedFiles(application_id, workflow_id, state, now) ==
    ("workflow_state.json" :> state)
    @@ (IF state.assessment_result.kind # "empty"
        THEN ("assessment_result.json" :> state.assessment_result)
             @@ ("final_judgment.json" :> state.assessment_result)
        ELSE EmptyDict)
    @@ (IF state.comprehensive_report.kind # "absent"
        THEN ("comprehensive_report.json" :> state.comprehensive_report)
        ELSE EmptyDict)
    @@ ("summary.json" :> Summary(application_id, workflow_id, state))
    @@ ("application_status.json" :>
            GenerateApplicationStatus(state, application_id, now))

\* _save_workflow_results (workflow_orchestrator.py:410-480)
SaveWorkflowResults(workflow_id, state, out, now) ==
    LET application_id == PersistenceKey(workflow_id, state)
        old_dir == Get(out.dirs, application_id, EmptyDict)
    IN  [dirs |-> Update(out.dirs,
                         application_id :>
                             Update(old_dir,
                                    SavedFiles(application_id, workflow_id,
                                               state, now))),
         root |-> Update(out.root,
                         application_id :>
                             GenerateApplicationStatus(state, application_id,
                                                       now))]

\* the call of _save_workflow_results (workflow_orchestrator.py:198-199)
SaveResults ==
    /\ pc = "save"
    /\ UNCHANGED <<assessment_result, sub_assessments>>
    /\ output_dir' = SaveWorkflowResults(workflow_state.workflow_id,
                                         workflow_state, output_dir, clock)
    /\ persisted' =
           Append(persisted,
                  [key |-> PersistenceKey(workflow_state.workflow_id,
                                          workflow_state),
                   application_id |-> Get(workflow_state.applicant_info,
                                          "application_id", NoId),
                   workflow_id |-> workflow_state.workflow_id])
    /\ pc' = "finish"
    /\ UNCHANGED <<workflow_state, doc_index, processed_documents,
                   assessment_data, clock, runs, extract_calls, assess_calls,
                   outcomes>>

\* _calculate_duration (workflow_orchestrator.py:539-552), in seconds
CalculateDuration(start_time, end_time) == end_time - start_time

\* the run is marked completed at the end of the try block, whatever
\* branch was taken
FinishWorkflow_MarksCompleted ==
    /\ pc = "finish"
    /\ UNCHANGED <<assessment_result, sub_assessments>>
    /\ workflow_state' =
           [workflow_state EXCEPT
               !.status = COMPLETED,
               !.end_time = clock,
               !.duration = clock - workflow_state.start_time]
    /\ pc' = "returned"
    /\ UNCHANGED <<doc_index, processed_documents, assessment_data, output_dir,
                   clock, runs, extract_calls, assess_calls, persisted,
                   outcomes>>

\* the end of the try block (workflow_orchestrator.py:205-211)
FinishWorkflow ==
    /\ pc = "finish"
    /\ UNCHANGED <<assessment_result, sub_assessments>>
    /\ workflow_state' =
           [workflow_state EXCEPT
               !.end_time = clock,
               !.duration = CalculateDuration(workflow_state.start_time, clock)]
    /\ pc' = "returned"
    /\ UNCHANGED <<doc_index, processed_documents, assessment_data, output_dir,
                   clock, runs, extract_calls, assess_calls, persisted,
                   outcomes>>

\* the steps of a run after its start
WorkflowStep ==
    \/ BeginProcessing
    \/ ValidationGate
    \/ ProcessNextDocument
    \/ DocumentsProcessed
    \/ NoDocumentsProcessed
    \/ ConvertDocuments
    \/ RunAssessment
    \/ GenerateReport
    \/ SaveResults
    \/ FinishWorkflow

\* one run of process_application_workflow on a fresh output directory
Next ==
    \/ StartWorkflow({"W1"}, Batches, 1)
    \/ WorkflowStep
    \/ Tick

Spec == Init /\ [][Next]_vars

\* a sequence of runs on the same output directory
NextRuns ==
    \/ StartWorkflow(WorkflowIds, RerunBatches, MaxRuns)
    \/ WorkflowStep
    \/ Tick

SpecRuns == Init /\ [][NextRuns]_vars

(***************************************************************************)
(* The assessment agent called by itself: assess_application on a profile  *)
(* a caller built (assessment_agent.py:112-175).                           *)
(***************************************************************************)
ApplicantInfos ==
    { ("name" :> "Ali") @@ ("age" :> a) @@ ("address" :> "Dubai") :
          a \in {20, 40, 70, NotANumber} }
    \cup { ("name" :> "Ali") @@ ("age" :> 40) }

IncomeInfos ==
    { EmptyDict, "annual_income" :> 60000, "annual_income" :> 100000,
      "annual_income" :> NotANumber }

FamilyInfos ==
    { EmptyDict,
      ("family_size" :> 4) @@ ("dependents" :> 3)
          @@ ("special_circumstances" :> {"single_parent", "disabled_member"}),
      ("family_size" :> 1) @@ ("dependents" :> 0)
          @@ ("special_circumstances" :> {"single_parent"}) }

EmploymentInfos ==
    { EmptyDict,
      ("current_status" :> "unemployed") @@ ("months_unemployed" :> 6),
      "current_status" :> "full_time",
      "current_status" :> "self_employed" }

WealthInfos ==
    { EmptyDict,
      ("savings" :> 20000) @@ ("property_value" :> 250000)
          @@ ("total_debts" :> 0),
      ("savings" :> 0) @@ ("property_value" :> 100000)
          @@ ("total_debts" :> 60000),
      "savings" :> NotANumber }

DemographicInfos ==
    { EmptyDict,
      "education_level" :> "high_school",
      ("education_level" :> "high_school") @@ ("disability_status" :> TRUE) }

\* the groups a caller can leave out of the profile
MissingGroups ==
    { {}, {"income_info"}, {"employment_info", "family_info"},
      {"applicant_info", "wealth_info"}, {"demographic_info"} }

FullProfiles ==
    [application_id : {"A1"}, applicant_info : ApplicantInfos,
     income_info : IncomeInfos, employment_info : EmploymentInfos,
     family_info : FamilyInfos, wealth_info : WealthInfos,
     demographic_info : DemographicInfos]

Without(profile, groups) ==
    [g \in DOMAIN profile \ groups |-> profile[g]]

\* the complete profiles, and one profile for each way of leaving groups out
Profiles ==
    FullProfiles
    \cup { Without([application_id |-> "A1",
                    applicant_info |-> ("name" :> "Ali") @@ ("age" :> 40)
                                       @@ ("address" :> "Dubai"),
                    income_info |-> EmptyDict, employment_info |-> EmptyDict,
                    family_info |-> EmptyDict, wealth_info |-> EmptyDict,
                    demographic_info |-> EmptyDict], groups) :
               groups \in MissingGroups }

\* one call of assess_application
AssessDirect ==
    /\ pc = "idle"
    /\ assess_calls < MaxCalls
    /\ \E application_data \in Profiles :
          /\ assessment_data' = application_data
          /\ assessment_result' = AssessApplication(application_data)
          /\ sub_assessments' = SubAssessmentsRun(application_data)
    /\ assess_calls' = assess_calls + 1
    /\ UNCHANGED <<workflow_state, pc, doc_index, processed_documents,
                   output_dir, clock, runs, extract_calls, persisted, outcomes>>

NextAssess == AssessDirect

SpecAssess == Init /\ [][NextAssess]_vars

(***************************************************************************)
(* assess_application on profiles that differ in the inputs of one         *)
(* sub-assessment (assessment_agent.py:203-262).                           *)
(***************************************************************************)
\* one call of assess_application on a profile of the set
AssessOneOf(profiles) ==
    /\ pc = "idle"
    /\ assess_calls < MaxCalls
    /\ \E application_data \in profiles :
          /\ assessment_data' = application_data
          /\ assessment_result' = AssessApplication(application_data)
          /\ sub_assessments' = SubAssessmentsRun(application_data)
    /\ assess_calls' = assess_calls + 1
    /\ UNCHANGED <<workflow_state, pc, doc_index, processed_documents,
                   output_dir, clock, runs, extract_calls, persisted, outcomes>>

\* annual incomes around the band limits of each family size
AnnualIncomes ==
    {0, 28000, 30000, 30001, 39000, 39001, 48000, 52500, 52501, 57000, 66000,
     68250, 75000, 75001, 84000, 97500, 97501, 99750, 120000, 120001, 142500,
     165000, 165001, 187500, 187501, 250000}

FamilySizes == 1..7

IncomeProfiles ==
    { [application_id |-> "A1",
       applicant_info |->
           ("name" :> "Ali") @@ ("age" :> 40) @@ ("address" :> "Dubai"),
       income_info |-> ("annual_income" :> annual_income),
       employment_info |-> EmptyDict,
       family_info |-> ("family_size" :> family_size),
       wealth_info |-> EmptyDict,
       demographic_info |-> EmptyDict]
      : annual_income \in AnnualIncomes, family_size \in FamilySizes }

NextIncome == AssessOneOf(IncomeProfiles)

SpecIncome == Init /\ [][NextIncome]_vars

\* wealth groups as _map_assets_data writes them
\* (document_processor.py:1270-1289): net_worth is the statement's own
\* figure, which also counts investments, vehicles and other liabilities
WealthGroups ==
    { ("savings" :> savings) @@ ("property_value" :> property_value)
        @@ ("total_debts" :> total_debts) @@ ("net_worth" :> net_worth)
      : savings \in {0, 9999, 10000, 15000},
        property_value \in {0, 199999, 200000, 250000},
        total_debts \in {0, 30000, 300000},
        net_worth \in {-50000, 0, 265000} }

WealthProfiles ==
    { [application_id |-> "A1",
       applicant_info |->
           ("name" :> "Ali") @@ ("age" :> 40) @@ ("address" :> "Dubai"),
       income_info |-> income_info,
       employment_info |-> EmptyDict,
       family_info |-> EmptyDict,
       wealth_info |-> wealth_info,
       demographic_info |-> EmptyDict]
      : wealth_info \in WealthGroups,
        income_info \in {EmptyDict, "annual_income" :> 60000,
                         "annual_income" :> 75000} }

NextWealth == AssessOneOf(WealthProfiles)

SpecWealth == Init /\ [][NextWealth]_vars

(***************************************************************************)
(* Direct calls of _calculate_age (document_processor.py:1406-1418) on a   *)
(* date of birth, at a current date.  The call is recorded in outcomes.    *)
(***************************************************************************)
IsLeapYear(year) ==
    (year % 4 = 0 /\ year % 100 # 0) \/ year % 400 = 0

DaysInMonth(year, month) ==
    CASE month = 2 -> IF IsLeapYear(year) THEN 29 ELSE 28
      [] month \in {4, 6, 9, 11} -> 30
      [] OTHER -> 31

\* the dates strptime accepts, among the given years, months and days
ValidDates(years, months, days) ==
    { d \in [year : years, month : months, day : days] :
          d.day <= DaysInMonth(d.year, d.month) }

BirthDates == ValidDates({2000, 2008}, {2, 3, 12}, {1, 19, 20, 28, 29, 31})

CurrentDates ==
    ValidDates({2026, 2028}, {2, 3, 12}, {1, 19, 20, 28, 29, 31})

CalculateAgeDirect ==
    /\ pc = "idle"
    /\ Len(outcomes) < MaxCalls
    /\ \E date_of_birth \in BirthDates, today \in CurrentDates :
          outcomes' = Append(outcomes,
                             [date_of_birth |-> date_of_birth,
                              today |-> today,
                              age |-> CalculateAge(date_of_birth, today)])
    /\ UNCHANGED <<workflow_state, pc, doc_index, processed_documents,
                   assessment_data, output_dir, clock, runs, extract_calls,
                   assess_calls, assessment_result, sub_assessments,
                   persisted>>

NextAge == CalculateAgeDirect

SpecAge == Init /\ [][NextAge]_vars

(***************************************************************************)
(* The merge, the hints and the assessment of a run taken together         *)
(* (workflow_orchestrator.py:170-186), on a batch of processed documents.  *)
(***************************************************************************)
\* the profile handed to the assessment
\* (workflow_orchestrator.py:174-181)
BuildProfile(documents, applicant_info, now) ==
    LET converted ==
            ConvertToAssessmentFormat(documents,
                Get(applicant_info, "application_id", NoId), now)
    IN  [converted EXCEPT !.applicant_info = Update(@, applicant_info)]

OrderTypes == {"emirates_id", "resume", "bank_statement"}

OrderRecords(doc_type) ==
    IF doc_type = "emirates_id"
    THEN { r \in EmiratesRecords : HasKey(r, "full_name") }
    ELSE StructuredRecords(doc_type)

OrderDocuments ==
    UNION { { [document_type |-> doc_type,
               file_format |-> "pdf",
               structured_data |-> structured_data,
               confidence_score |-> Get(structured_data, "confidence_score", 0)]
              : structured_data \in OrderRecords(doc_type) }
            : doc_type \in OrderTypes }

MergeAndAssess ==
    /\ pc = "idle"
    /\ \E documents \in SeqsUpTo(OrderDocuments, MaxDocs) :
       \E applicant_info \in ApplicantHints :
          /\ processed_documents' = documents
          /\ workflow_state' =
                 [workflow_state EXCEPT !.applicant_info = applicant_info]
          /\ assessment_data' = BuildProfile(documents, applicant_info, clock)
          /\ assessment_result' = AssessApplication(assessment_data')
          /\ sub_assessments' = SubAssessmentsRun(assessment_data')
    /\ assess_calls' = assess_calls + 1
    /\ pc' = "assessed"
    /\ UNCHANGED <<doc_index, output_dir, clock, runs, extract_calls,
                   persisted, outcomes>>

NextOrder == MergeAndAssess

SpecOrder == Init /\ [][NextOrder]_vars

(***************************************************************************)
(* Direct calls of convert_to_assessment_format                            *)
(* (document_processor.py:1166-1213) on a batch of processed documents of  *)
(* the four types that write applicant_info.  Records are flattened as     *)
(* above; a credit report's phone is the first of its phone numbers.       *)
(***************************************************************************)
MergeEmiratesRecords ==
    EmiratesRecords
    \cup { ("full_name" :> "") @@ ("address" :> "Ajman")
             @@ ("confidence_score" :> 30) }

MergeCreditRecords ==
    CreditReportRecords
    \cup { ("name" :> "Carim") @@ ("email" :> "carim@mail.ae")
             @@ ("phone" :> "0501") @@ ("address" :> "Sharjah")
             @@ ("confidence_score" :> 75),
           ("name" :> "Dana") @@ ("email" :> "dana@mail.ae")
             @@ ("phone" :> "0552") @@ ("address" :> "Ajman")
             @@ ("date_of_birth" :> [year |-> 1985, month |-> 1, day |-> 1])
             @@ ("confidence_score" :> 65) }

\* the records a processed document of the type can carry
MergeRecords(doc_type) ==
    CASE doc_type = "emirates_id" -> MergeEmiratesRecords
      [] doc_type = "credit_report" -> MergeCreditRecords
      [] OTHER -> StructuredRecords(doc_type)

MergeTypes == {"emirates_id", "resume", "credit_report", "bank_statement"}

\* results of process_document (document_processor.py:180-209)
MergeDocuments ==
    UNION { { [document_type |-> doc_type,
               file_format |-> "pdf",
               structured_data |-> structured_data,
               confidence_score |-> Get(structured_data, "confidence_score", 0)]
              : structured_data \in MergeRecords(doc_type) }
            : doc_type \in MergeTypes }

\* one call of convert_to_assessment_format; an exception of a mapper
\* propagates to the caller (the loop at 1190-1211 has no handler)
ConvertDirect ==
    /\ pc = "idle"
    /\ \E documents \in SeqsUpTo(MergeDocuments, MaxDocs) :
       \E application_id \in {NoId, "APP-1"} :
          /\ processed_documents' = documents
          /\ IF ConvertRaises(documents)
             THEN /\ pc' = "raised"
                  /\ UNCHANGED assessment_data
             ELSE /\ pc' = "converted"
                  /\ assessment_data' =
                         ConvertToAssessmentFormat(documents, application_id,
                                                   clock)
    /\ UNCHANGED <<workflow_state, doc_index, output_dir, clock, runs,
                   extract_calls, assess_calls, assessment_result,
                   sub_assessments, persisted, outcomes>>

NextMerge == ConvertDirect

SpecMerge == Init /\ [][NextMerge]_vars

(***************************************************************************)
(* Status lookups (workflow_orchestrator.py:554-608).                      *)
(***************************************************************************)
NotFound == [error |-> "not found"]

\* get_application_status
GetApplicationStatus(out, application_id) ==
    IF ~HasKey(out.dirs, application_id) THEN NotFound
    ELSE LET app_dir == out.dirs[application_id]
         IN  IF HasKey(app_dir, "application_status.json")
             THEN app_dir["application_status.json"]
             ELSE IF HasKey(app_dir, "summary.json")
             THEN app_dir["summary.json"]
             ELSE IF HasKey(app_dir, "workflow_state.json")
             THEN [application_id |-> application_id,
                   workflow_id |-> app_dir["workflow_state.json"].workflow_id,
                   status |-> app_dir["workflow_state.json"].status,
                   start_time |-> app_dir["workflow_state.json"].start_time,
                   end_time |-> app_dir["workflow_state.json"].end_time]
             ELSE NotFound

\* get_workflow_status: the directories are scanned in the order iterdir
\* yields them and the first summary with the workflow id is returned, so
\* the result is any of the matching summaries
GetWorkflowStatus(out, workflow_id) ==
    LET matches == { d \in DOMAIN out.dirs :
                        /\ HasKey(out.dirs[d], "summary.json")
                        /\ out.dirs[d]["summary.json"].workflow_id = workflow_id }
    IN  IF matches = {} THEN {NotFound}
        ELSE { out.dirs[d]["summary.json"] : d \in matches }

(***************************************************************************)
(* Properties.                                                             *)
(***************************************************************************)
Range(s) == { s[i] : i \in 1..Len(s) }

TerminalStatus == {COMPLETED, FAILED}

\* the status that follows s on the forward path
NextStatus(s) ==
    CASE s = INITIATED -> PROCESSING_DOCUMENTS
      [] s = PROCESSING_DOCUMENTS -> DOCUMENTS_PROCESSED
      [] s = DOCUMENTS_PROCESSED -> RUNNING_ASSESSMENT
      [] s = RUNNING_ASSESSMENT -> ASSESSMENT_COMPLETE
      [] s = ASSESSMENT_COMPLETE -> COMPLETED
      [] OTHER -> "none"

\* the validation gate let the batch through
ValidationPassed == doc_index >= 1

\* the run is past the validation gate
PastValidation == pc \notin {"idle", "begin", "validate"}

\* the three reasons for which a document fails validation
FailsValidation(doc) ==
    \/ ~FileExists(doc.file_path)
    \/ FileSuffix(doc.file_path) \notin valid_extensions
    \/ /\ doc.purpose # NoPurpose
       /\ Lower(doc.purpose) \in DOMAIN format_rules
       /\ FileSuffix(doc.file_path) \notin format_rules[Lower(doc.purpose)]

\* the error string the gate reports for such a document
ErrorNaming(doc) ==
    IF ~FileExists(doc.file_path)
    THEN <<"File not found", doc.file_path>>
    ELSE IF FileSuffix(doc.file_path) \notin valid_extensions
    THEN <<"Unsupported file format", FileSuffix(doc.file_path), doc.file_path>>
    ELSE <<"Invalid format", FileSuffix(doc.file_path), Lower(doc.purpose)>>

\* C1: within a run the status changes only to the next status of the
\* forward path or, from a non-terminal status, to FAILED; a status of
\* COMPLETED or FAILED never changes again.
C1_StatusMovesForward ==
    [][ LET s == workflow_state.status
            t == workflow_state'.status
        IN  (s # "" /\ s # t) =>
                /\ s \notin TerminalStatus
                /\ t = NextStatus(s) \/ t = FAILED ]_vars

C1_Witness ==
    /\ pc = "returned"
    /\ workflow_state.status = COMPLETED
    /\ workflow_state.end_time # NoTime

\* C2: when a document of the batch fails validation, the run has returned
\* FAILED with that document's validation error in errors and without any
\* call of the document processor.
C2_ValidationGate ==
    (PastValidation
     /\ \E i \in 1..Len(workflow_state.documents) :
            FailsValidation(workflow_state.documents[i]))
    => /\ pc = "returned"
       /\ workflow_state.status = FAILED
       /\ \A i \in 1..Len(workflow_state.documents) :
              FailsValidation(workflow_state.documents[i])
              => ErrorNaming(workflow_state.documents[i])
                     \in Range(workflow_state.errors)
       /\ extract_calls = 0
       /\ outcomes = << >>
       /\ workflow_state.processed_documents = << >>

\* a failed batch that also holds a document that is valid by itself
C2_Witness ==
    /\ pc = "returned"
    /\ workflow_state.status = FAILED
    /\ \E i, j \in 1..Len(workflow_state.documents) :
          /\ FailsValidation(workflow_state.documents[i])
          /\ DocValidationErrors(workflow_state.documents[j]) = << >>

\* the batch holds an existing document declared emirates_id in an allowed
\* format
HasEmiratesId(documents) ==
    \E i \in 1..Len(documents) :
        /\ FileExists(documents[i].file_path)
        /\ documents[i].purpose # NoPurpose
        /\ Lower(documents[i].purpose) = "emirates_id"
        /\ FileSuffix(documents[i].file_path) \in format_rules.emirates_id

HasResume(documents) ==
    \E i \in 1..Len(documents) :
        /\ FileExists(documents[i].file_path)
        /\ documents[i].purpose # NoPurpose
        /\ Lower(documents[i].purpose) = "resume"
        /\ FileSuffix(documents[i].file_path) \in format_rules.resume

\* C3: a batch without an Emirates ID document ends FAILED before any
\* extraction call, with an error naming "Emirates ID"; a batch whose
\* documents are valid and which lacks only a resume passes validation.
C3_EmiratesIdMandatory ==
    /\ (PastValidation /\ ~HasEmiratesId(workflow_state.documents))
       => /\ pc = "returned"
          /\ workflow_state.status = FAILED
          /\ extract_calls = 0
          /\ \E e \in Range(workflow_state.errors) : e[Len(e)] = "Emirates ID"
    /\ (PastValidation
        /\ HasEmiratesId(workflow_state.documents)
        /\ ~HasResume(workflow_state.documents)
        /\ \A i \in 1..Len(workflow_state.documents) :
               /\ ~FailsValidation(workflow_state.documents[i])
               /\ FileSizeMB(workflow_state.documents[i].file_path)
                      <= MaxFileSizeMB)
       => ValidationPassed

\* a batch of valid documents, none of them an Emirates ID, was refused
C3_Witness ==
    /\ pc = "returned"
    /\ Len(workflow_state.documents) >= 1
    /\ \A i \in 1..Len(workflow_state.documents) :
          DocValidationErrors(workflow_state.documents[i]) = << >>
    /\ workflow_state.errors = <<MissingEmiratesId>>
    /\ extract_calls = 0

\* C4: when validation passes with the resume warning, the returned state
\* holds that warning in warnings.
C4_WarningsKept ==
    (pc = "returned" /\ ValidationPassed
     /\ ~HasResume(workflow_state.documents))
    => ResumeWarning \in Range(workflow_state.warnings)

\* the extracted data of the documents that succeeded, in input order
RECURSIVE Successes(_, _)
Successes(outs, i) ==
    IF i > Len(outs) THEN << >>
    ELSE (IF outs[i].status = "success" THEN <<outs[i].extracted_data>>
          ELSE << >>) \o Successes(outs, i + 1)

\* the paths of the documents that failed, in input order
RECURSIVE FailedPaths(_, _, _)
FailedPaths(outs, documents, i) ==
    IF i > Len(outs) THEN << >>
    ELSE (IF outs[i].status # "success" THEN <<documents[i].file_path>>
          ELSE << >>) \o FailedPaths(outs, documents, i + 1)

\* C5: in the processing loop every document is attempted; a document that
\* returns an error or raises adds one error string naming its path and the
\* loop goes on; processed_documents, and the document_sources of the merged
\* profile, are the successful documents in input order.
C5_FailureIsolation ==
    /\ pc = "process" =>
          /\ Len(outcomes) = doc_index - 1
          /\ processed_documents = Successes(outcomes, 1)
    /\ (ValidationPassed /\ pc # "process") =>
          /\ Len(outcomes) = Len(workflow_state.documents)
          /\ workflow_state.processed_documents = Successes(outcomes, 1)
    /\ (ValidationPassed /\ pc \in {"process", "convert", "no_documents"}) =>
          /\ Len(workflow_state.errors)
                 = Len(FailedPaths(outcomes, workflow_state.documents, 1))
          /\ \A k \in 1..Len(workflow_state.errors) :
                LET e == workflow_state.errors[k]
                IN  e[Len(e)]
                        = FailedPaths(outcomes, workflow_state.documents, 1)[k]
    /\ pc \in {"assess", "report", "save"} =>
          /\ Len(assessment_data.document_sources)
                 = Len(Successes(outcomes, 1))
          /\ \A k \in 1..Len(assessment_data.document_sources) :
                assessment_data.document_sources[k].type
                    = Successes(outcomes, 1)[k].document_type

\* a run completed although its first document failed; the second document,
\* of another type, is the one merged
C5_Witness ==
    /\ pc = "returned"
    /\ workflow_state.status = COMPLETED
    /\ Len(outcomes) = 2
    /\ outcomes[1].status # "success"
    /\ outcomes[2].status = "success"
    /\ Len(workflow_state.errors) = 1

NoDocumentsError == <<"No documents were successfully processed">>

ExceptionMessages ==
    { <<"'NoneType' object has no attribute 'get'">>,
      <<"list indices must be integers">> }

\* C6: when validation passed and no document was processed successfully
\* the run returns FAILED with errors, an empty assessment_result and no call
\* of the assessment agent; when at least one document was processed the
\* document stage leaves the status at DOCUMENTS_PROCESSED and the run is
\* FAILED only through an exception of a later stage.
C6_TotalFailure ==
    /\ (pc = "returned" /\ ValidationPassed /\ Successes(outcomes, 1) = << >>)
       => /\ workflow_state.status = FAILED
          /\ workflow_state.errors # << >>
          /\ workflow_state.assessment_result = NoAssessment
          /\ assess_calls = 0
    /\ (ValidationPassed /\ pc # "process" /\ Successes(outcomes, 1) # << >>)
       => /\ pc # "no_documents"
          /\ NoDocumentsError \notin Range(workflow_state.errors)
          /\ pc = "convert" => workflow_state.status = DOCUMENTS_PROCESSED
          /\ workflow_state.status = FAILED
             => workflow_state.errors[Len(workflow_state.errors)]
                    \in ExceptionMessages

\* both documents of a valid batch failed
C6_Witness ==
    /\ pc = "returned"
    /\ ValidationPassed
    /\ Len(outcomes) = 2
    /\ Successes(outcomes, 1) = << >>
    /\ workflow_state.status = FAILED

\* the run's state and summary are in the output directory
RunPersisted ==
    \E d \in DOMAIN output_dir.dirs :
        /\ HasKey(output_dir.dirs[d], "workflow_state.json")
        /\ HasKey(output_dir.dirs[d], "summary.json")
        /\ output_dir.dirs[d]["workflow_state.json"].workflow_id
               = workflow_state.workflow_id
        /\ output_dir.dirs[d]["summary.json"].workflow_id
               = workflow_state.workflow_id

\* C7: a run that has returned COMPLETED or FAILED has written its workflow
\* state and its summary.
C7_PersistedAtTerminalStates ==
    (pc = "returned" /\ workflow_state.status \in TerminalStatus)
    => RunPersisted

\* C8: the artifacts of a completed run are under the directory named by
\* the application id of the caller's applicant_info, or by the workflow id
\* when the caller gave none.
C8_PersistenceKey ==
    (pc \in {"finish", "returned"} /\ workflow_state.status = COMPLETED)
    => DOMAIN output_dir.dirs =
           { IF Get(workflow_state.applicant_info, "application_id", NoId) # NoId
             THEN workflow_state.applicant_info["application_id"]
             ELSE workflow_state.workflow_id }

\* the application id the caller supplied for the current run
SuppliedApplicationId ==
    Get(workflow_state.applicant_info, "application_id", NoId)

\* C8 as amended: the artifacts of a completed run are under the directory
\* named by the supplied application id; when none was supplied, by the id
\* "APP-<time>" the document merge generated during the run if the
\* assessment gave a scored result, and by the workflow id if it did not.
C8_PersistenceKeyAmended ==
    (pc \in {"finish", "returned"} /\ workflow_state.status = COMPLETED)
    => LET scored == workflow_state.assessment_result.kind = "scored"
           key == IF SuppliedApplicationId # NoId THEN SuppliedApplicationId
                  ELSE IF scored THEN assessment_data.application_id
                  ELSE workflow_state.workflow_id
       IN  /\ DOMAIN output_dir.dirs = {key}
           /\ DOMAIN output_dir.root = {key}
           /\ {"workflow_state.json", "summary.json",
                "application_status.json"} \subseteq DOMAIN output_dir.dirs[key]
           /\ output_dir.dirs[key]["summary.json"].application_id = key
           /\ (SuppliedApplicationId = NoId /\ scored)
              => key \in { GeneratedApplicationId(t) :
                               t \in workflow_state.start_time..clock }

\* a completed run without a supplied id was saved under a generated id
C8_Witness ==
    /\ pc = "returned"
    /\ workflow_state.status = COMPLETED
    /\ SuppliedApplicationId = NoId
    /\ workflow_state.assessment_result.kind = "scored"
    /\ DOMAIN output_dir.dirs = {GeneratedApplicationId(clock)}

\* every identifier a caller or the orchestrator can use
Identifiers ==
    WorkflowIds \cup {"A1", "A2"}
    \cup { GeneratedApplicationId(t) : t \in 0..MaxClock }

\* index of the last saved run with directory key k, 0 when there is none
LastSaved(k) ==
    LET S == { i \in 1..Len(persisted) : persisted[i].key = k }
    IN  IF S = {} THEN 0 ELSE CHOOSE i \in S : \A j \in S : j <= i

C10_TerminalStateFrozen ==
    [][ workflow_state.status \in TerminalStatus
        => workflow_state' = workflow_state ]_vars

\* the texts a summary record holds, each as a message of one part; its
\* errors and warnings entries are numbers
SummaryTexts(summary) ==
    { <<summary.application_id>>, <<summary.workflow_id>>, <<summary.status>>,
      <<summary.applicant_name>>, <<summary.final_decision>> }

\* C11: for every saved run, each error and each warning of the saved
\* workflow state is among the texts of the run's summary.json.
C11_ErrorsVerbatimInSummary ==
    \A d \in DOMAIN output_dir.dirs :
        LET saved == output_dir.dirs[d]["workflow_state.json"]
            summary == output_dir.dirs[d]["summary.json"]
        IN  \A e \in Range(saved.errors) \cup Range(saved.warnings) :
                e \in SummaryTexts(summary)

\* the five canonical names of the document types
CanonicalPurposes ==
    {"emirates_id", "resume", "assets_liabilities", "credit_report",
     "bank_statement"}

\* C17: a processed document whose declared purpose is one of the five
\* canonical names is classified as that type.
C17_DeclaredPurposeHonoured ==
    \A i \in 1..Len(outcomes) :
        (outcomes[i].status = "success"
         /\ workflow_state.documents[i].purpose \in CanonicalPurposes)
        => outcomes[i].extracted_data.document_type
               = workflow_state.documents[i].purpose

\* the result of a direct call, or of the run's assessment, is a scored one
Scored == assessment_result.kind = "scored"

\* C12: for a profile that passes the validation each of the five
\* sub-scores is in [0,1] and the overall score, their weighted sum with
\* weights 0.35, 0.30, 0.15, 0.15 and 0.05, is in [0,1].
C12_ScoreRange ==
    Scored =>
        LET s == assessment_result.individual_assessments
        IN  /\ \A c \in DOMAIN s : s[c] >= 0 /\ s[c] <= 100
            /\ assessment_result.overall_score
                   = 35 * s.income + 30 * s.employment + 15 * s.family
                     + 15 * s.wealth + 5 * s.demographic
            /\ assessment_result.overall_score >= 0
            /\ assessment_result.overall_score <= 10000

\* the status the bands give to a score, in ten-thousandths
BandStatus(score) ==
    CASE score >= 8000 -> "approved"
      [] score >= 4900 /\ score < 8000 -> "conditionally_approved"
      [] score >= 4000 /\ score < 4900 -> "pending_review"
      [] OTHER -> "rejected"

\* C13: the status of a scored result is the one the bands give to its
\* overall score: a score of 0.8 or more is approved, a score under 0.3 is
\* rejected, and the final override leaves the status of the bands.
C13_StatusFromScore ==
    Scored =>
        /\ assessment_result.status = BandStatus(assessment_result.overall_score)
        /\ assessment_result.overall_score >= 8000
           => assessment_result.status = "approved"
        /\ assessment_result.overall_score < 3000
           => assessment_result.status = "rejected"
        /\ assessment_result.status
               = PreliminaryStatus(assessment_result.overall_score)

\* a score at the lower end of the conditional band
C13_Witness ==
    /\ Scored
    /\ assessment_result.overall_score = 4900
    /\ assessment_result.status = "conditionally_approved"

\* C14: a scored result requires human review exactly when its overall
\* score is between 0.4 and 0.6, both included, whatever its status.
C14_HumanReview ==
    Scored =>
        /\ assessment_result.requires_human_review
           <=> (assessment_result.overall_score >= 4000
                /\ assessment_result.overall_score <= 6000)
        /\ (assessment_result.status = "conditionally_approved"
            /\ assessment_result.overall_score <= 6000)
           => assessment_result.requires_human_review
        /\ assessment_result.status = "rejected"
           => ~assessment_result.requires_human_review

\* a conditionally approved result with a score of exactly 0.6 is flagged
C14_Witness ==
    /\ Scored
    /\ assessment_result.overall_score = 6000
    /\ assessment_result.status = "conditionally_approved"
    /\ assessment_result.requires_human_review

RequiredGroups ==
    {"applicant_info", "income_info", "employment_info", "family_info"}

\* C15: when a required group is absent from the profile the result is
\* INSUFFICIENT_DATA, its reason names every missing group, no
\* sub-assessment was entered and there is no overall score.
C15_InsufficientData ==
    (assess_calls >= 1 /\ RequiredGroups \ DOMAIN assessment_data # {})
    => /\ assessment_result.kind = "insufficient_data"
       /\ assessment_result.status = "insufficient_data"
       /\ \A g \in RequiredGroups \ DOMAIN assessment_data :
              <<"Missing required field", g>> \in Range(assessment_result.reason)
       /\ sub_assessments = 0
       /\ assessment_result.overall_score = NoAssessment.overall_score
       /\ assessment_result.individual_assessments = NoScores

\* a profile without two of the required groups was refused
C15_Witness ==
    /\ assess_calls = 1
    /\ RequiredGroups \ DOMAIN assessment_data
           = {"employment_info", "family_info"}
    /\ Len(assessment_result.reason) = 2
    /\ assessment_result.status = "insufficient_data"

\* the run's assessment returned a result without a score
Degraded ==
    /\ assess_calls >= 1
    /\ assessment_result.kind \in {"insufficient_data", "error"}

ReportExceptionMessage == <<"list indices must be integers">>

MergedPrefix(i) ==
    ConvertToAssessmentFormat(SubSeq(processed_documents, 1, i),
                              assessment_data.application_id, clock)

\* a field of applicant_info, "" when absent
ApplicantField(ad, field) == Get(ad.applicant_info, field, "")

\* the batch with its two documents swapped
Swapped == <<processed_documents[2], processed_documents[1]>>

EmiratesAndResume ==
    /\ pc = "converted"
    /\ Len(processed_documents) = 2
    /\ {processed_documents[1].document_type,
        processed_documents[2].document_type} = {"emirates_id", "resume"}

\* C18: a batch of one emirates_id record and one resume record yields the
\* same applicant_info.name in either order of the two documents.
C18_NameConvergence ==
    EmiratesAndResume =>
        ApplicantField(assessment_data, "name")
          = ApplicantField(ConvertToAssessmentFormat(
                               Swapped, assessment_data.application_id, clock),
                           "name")

\* the i-th document of the converted batch is of the type and the profile
\* before it already holds a non-empty value in the field
MergedOnto(i, doc_type, field) ==
    /\ pc = "converted"
    /\ i \in 1..Len(processed_documents)
    /\ processed_documents[i].document_type = doc_type
    /\ Truthy(ApplicantField(MergedPrefix(i - 1), field))

\* C19: merging an emirates_id record into a profile whose name is already
\* set by an earlier document leaves applicant_info.name unchanged.
C19_EmiratesKeepsName ==
    \A i \in 1..MaxDocs + 1 :
        MergedOnto(i, "emirates_id", "name") =>
            ApplicantField(MergedPrefix(i), "name")
              = ApplicantField(MergedPrefix(i - 1), "name")

\* C19 as amended: merging an emirates_id record sets applicant_info.name to
\* the record's full_name (empty when the record has none), whatever an
\* earlier document wrote; a resume, credit report or bank statement merged
\* onto a name already set leaves it unchanged.
C19_EmiratesSetsName ==
    \A i \in 1..MaxDocs + 1 :
        /\ MergedOnto(i, "emirates_id", "name") =>
              ApplicantField(MergedPrefix(i), "name")
                = Get(processed_documents[i].structured_data, "full_name", "")
        /\ \A doc_type \in MergeTypes \ {"emirates_id"} :
              MergedOnto(i, doc_type, "name") =>
                  ApplicantField(MergedPrefix(i), "name")
                    = ApplicantField(MergedPrefix(i - 1), "name")

\* an Emirates ID with a name was merged after a resume with another name
C19_Witness ==
    /\ pc = "converted"
    /\ Len(processed_documents) = 2
    /\ processed_documents[1].document_type = "resume"
    /\ processed_documents[2].document_type = "emirates_id"
    /\ ApplicantField(MergedPrefix(1), "name") = "Sara"
    /\ ApplicantField(assessment_data, "name") = "Ali"

\* C20: merging a credit_report record changes none of applicant_info's
\* name, age, email, phone and address that already holds a non-empty value.
C20_CreditReportFillsGaps ==
    \A i \in 1..MaxDocs + 1 :
        /\ \A field \in {"name", "email", "phone", "address"} :
              MergedOnto(i, "credit_report", field) =>
                  ApplicantField(MergedPrefix(i), field)
                    = ApplicantField(MergedPrefix(i - 1), field)
        /\ ( /\ pc = "converted"
             /\ i \in 1..Len(processed_documents)
             /\ processed_documents[i].document_type = "credit_report"
             /\ TruthyNumber(Get(MergedPrefix(i - 1).applicant_info, "age", 0)) )
           => Get(MergedPrefix(i).applicant_info, "age", 0)
                = Get(MergedPrefix(i - 1).applicant_info, "age", 0)

\* the document's structured record is the error marker of a reply that
\* could not be parsed
IsErrorMarker(doc) == doc.structured_data = ErrorMarker

StatedKey(run) ==
    IF run.application_id # NoId THEN run.application_id ELSE run.workflow_id

\* the files of a directory are those of the one run with workflow id W
ArtifactsOfOneRun(dir, W) ==
    /\ dir["workflow_state.json"].workflow_id = W
    /\ dir["summary.json"].workflow_id = W
    /\ dir["application_status.json"].workflow_id = W
    /\ HasKey(dir, "assessment_result.json") =>
          /\ dir["assessment_result.json"]
               = dir["workflow_state.json"].assessment_result
          /\ dir["final_judgment.json"] = dir["assessment_result.json"]
    /\ HasKey(dir, "comprehensive_report.json") =>
          dir["comprehensive_report.json"]
            = dir["workflow_state.json"].comprehensive_report

\* C22: two saved runs whose keys differ under the stated rule wrote
\* different output directories, and the directory of a key holds the
\* artifacts of the single run that was saved last under it.
C22_NoContention ==
    /\ \A i, j \in 1..Len(persisted) :
          StatedKey(persisted[i]) # StatedKey(persisted[j])
          => persisted[i].key # persisted[j].key
    /\ \A k \in Identifiers :
          LastSaved(k) # 0 =>
              ArtifactsOfOneRun(output_dir.dirs[k],
                                persisted[LastSaved(k)].workflow_id)

\* the family-size multiplier of the criteria, in tenths
StatedMultiplier10(family_size) ==
    IF family_size >= 6 THEN 25 ELSE <<10, 13, 16, 19, 22>>[family_size]

\* the income score, in hundredths, for an income and an adjusted threshold
StatedIncomeScore(annual_income, threshold) ==
    IF 10 * annual_income <= 4 * threshold THEN 100
    ELSE IF 10 * annual_income <= 7 * threshold THEN 80
    ELSE IF annual_income <= threshold THEN 50
    ELSE 20

StatedPriority(score) ==
    CASE score = 100 -> "high" [] score = 80 -> "medium"
      [] score = 50 -> "low" [] score = 20 -> "very_low"

StatedWealthScore(data) ==
    LET wealth_info == data.wealth_info
        annual_income == Get(data.income_info, "annual_income", 0)
        high_debt == /\ annual_income > 0
                     /\ 10 * wealth_info["total_debts"] > 4 * annual_income
    IN  Min(100,
            (IF wealth_info["savings"] < 10000 THEN 30 ELSE 0)
            + (IF wealth_info["property_value"] < 200000 THEN 20 ELSE 0)
            + (IF high_debt THEN 40 ELSE 0)
            + (IF wealth_info["net_worth"] < 0 THEN 30 ELSE 0))

\* C24: the wealth score is the clamped sum of the four increments, the last
\* one for a negative net worth of the profile; financial_stress holds
\* exactly for a score above 0.6 and needs_financial_counseling exactly for
\* a debt-to-income ratio above 0.5.
C24_WealthScore ==
    (assess_calls >= 1 /\ assessment_result.kind = "scored") =>
        LET wealth == WealthAssessment(assessment_data)
            annual_income == Get(assessment_data.income_info,
                                 "annual_income", 0)
            total_debts == assessment_data.wealth_info["total_debts"]
        IN  /\ wealth.score = StatedWealthScore(assessment_data)
            /\ assessment_result.individual_assessments.wealth
                 = StatedWealthScore(assessment_data)
            /\ wealth.financial_stress
                 <=> StatedWealthScore(assessment_data) > 60
            /\ wealth.needs_financial_counseling
                 <=> (annual_income > 0 /\ 2 * total_debts > annual_income)

\* date a is before date b, or the same day
DateAtMost(a, b) ==
    \/ a.year < b.year
    \/ a.year = b.year /\ a.month < b.month
    \/ a.year = b.year /\ a.month = b.month /\ a.day <= b.day

\* the n-th anniversary of a date
Anniversary(date, n) == [date EXCEPT !.year = @ + n]

\* C25: the derived age is the number of anniversaries of the date of birth
\* that have been reached at the current date: the year difference, minus
\* one exactly when the current (month, day) precedes the birth (month, day).
C25_AgeCalendarCorrect ==
    \A k \in 1..Len(outcomes) :
        LET call == outcomes[k]
            precedes ==
                \/ call.today.month < call.date_of_birth.month
                \/ /\ call.today.month = call.date_of_birth.month
                   /\ call.today.day < call.date_of_birth.day
        IN  /\ call.age = call.today.year - call.date_of_birth.year
                          - (IF precedes THEN 1 ELSE 0)
            /\ DateAtMost(Anniversary(call.date_of_birth, call.age),
                          call.today)
            /\ ~DateAtMost(Anniversary(call.date_of_birth, call.age + 1),
                           call.today)
            /\ call.age = CalculateAge(call.date_of_birth, call.today)

\* an age computed on the eighteenth birthday
C25_Witness ==
    \E k \in 1..Len(outcomes) :
        /\ outcomes[k].date_of_birth = [year |-> 2008, month |-> 3, day |-> 19]
        /\ outcomes[k].today = [year |-> 2026, month |-> 3, day |-> 19]
        /\ outcomes[k].age = 18

ApplicantKeys == {"name", "age", "address"}

\* the run's assessment was given a profile whose applicant_info lacks one
\* of the keys name, age and address
ApplicantKeyMissing ==
    ~(ApplicantKeys \subseteq DOMAIN assessment_data.applicant_info)

\* one source alone supplied name, age and address to the run's profile: a
\* merged Emirates ID record, a merged credit report or the caller's hints
OneSourceSuppliedAll ==
    \/ \E k \in 1..Len(workflow_state.processed_documents) :
          LET doc == workflow_state.processed_documents[k]
          IN  \/ doc.document_type = "emirates_id"
              \/ /\ doc.document_type = "credit_report"
                 /\ {"name", "date_of_birth", "address"}
                       \subseteq DOMAIN doc.structured_data
    \/ ApplicantKeys \subseteq DOMAIN workflow_state.applicant_info

AssessedInRun == assess_calls >= 1 /\ pc \in {"report", "save", "finish", "returned"}

\* C26: in a workflow run the assessed profile holds all required groups, and
\* the assessment returns INSUFFICIENT_DATA exactly when applicant_info lacks
\* one of name, age and address, which is when no merged Emirates ID record,
\* credit report or caller hint supplied all three keys.
C26_InsufficientByKeys ==
    AssessedInRun =>
        /\ RequiredGroups \subseteq DOMAIN assessment_data
        /\ assessment_result.kind = "insufficient_data" <=> ApplicantKeyMissing
        /\ ApplicantKeyMissing <=> ~OneSourceSuppliedAll

\* C26 as amended: the assessment returns INSUFFICIENT_DATA exactly when the
\* profile's applicant_info, as written by all merged documents and the hints
\* together, lacks one of name, age and address; then no Emirates ID record
\* was merged and no single source supplied all three keys.
C26_InsufficientByKeysAmended ==
    AssessedInRun =>
        /\ RequiredGroups \subseteq DOMAIN assessment_data
        /\ assessment_result.kind = "insufficient_data" <=> ApplicantKeyMissing
        /\ ApplicantKeyMissing => ~OneSourceSuppliedAll
        /\ assessment_result.kind = "insufficient_data" =>
              /\ assessment_result.status = "insufficient_data"
              /\ sub_assessments = 0

\* a run without a merged Emirates ID was assessed INSUFFICIENT_DATA although
\* its profile held all groups
C26_Witness ==
    /\ AssessedInRun
    /\ RequiredGroups \subseteq DOMAIN assessment_data
    /\ assessment_result.kind = "insufficient_data"
    /\ ApplicantKeyMissing
    /\ workflow_state.assessment_result.status = "insufficient_data"

\* the run's profile has been built (merge and hints applied)
ProfileBuilt ==
    \/ pc \in {"assess", "report", "save"}
    \/ pc \in {"finish", "returned"} /\ assess_calls >= 1

\* C27: in a workflow run the family_info group handed to the assessment is
\* empty, the family sub-score of a scored result is 0 and overall_score is
\* the weighted sum of the other four sub-scores.
C27_FamilyNeverContributes ==
    /\ ProfileBuilt => assessment_data.family_info = EmptyDict
    /\ (AssessedInRun /\ assessment_result.kind = "scored") =>
          LET scores == assessment_result.individual_assessments
          IN  /\ assessment_data.family_info = EmptyDict
              /\ scores.family = 0
              /\ assessment_result.overall_score
                   = 35 * scores.income + 30 * scores.employment
                     + 15 * scores.wealth + 5 * scores.demographic

\* a run with two merged documents and hints was scored with family score 0
C27_Witness ==
    /\ pc = "returned"
    /\ workflow_state.status = COMPLETED
    /\ Len(workflow_state.processed_documents) = 2
    /\ workflow_state.applicant_info # EmptyDict
    /\ workflow_state.assessment_result.kind = "scored"
    /\ workflow_state.assessment_result.individual_assessments.family = 0
    /\ workflow_state.assessment_result.overall_score > 0

\* the groups of a profile other than applicant_info and the identifier
OtherGroups ==
    {"income_info", "employment_info", "family_info", "wealth_info",
     "demographic_info", "document_sources"}

\* the profile merged from the run's processed documents alone
MergedFromDocuments ==
    ConvertToAssessmentFormat(workflow_state.processed_documents,
                              assessment_data.application_id, clock)

\* C28: the caller's applicant_info hints are applied after all documents are
\* merged and win over them: applicant_info holds the hint's value for every
\* hinted key and the merged value for every other key, and all other groups
\* are those of the merge.
C28_HintsWin ==
    ProfileBuilt =>
        LET hints == workflow_state.applicant_info
            merged == MergedFromDocuments
        IN  /\ \A key \in DOMAIN hints :
                  /\ key \in DOMAIN assessment_data.applicant_info
                  /\ assessment_data.applicant_info[key] = hints[key]
            /\ DOMAIN assessment_data.applicant_info
                 = DOMAIN merged.applicant_info \cup DOMAIN hints
            /\ \A key \in DOMAIN merged.applicant_info \ DOMAIN hints :
                  assessment_data.applicant_info[key]
                    = merged.applicant_info[key]
            /\ \A group \in OtherGroups :
                  assessment_data[group] = merged[group]

\* the hinted name replaced the name an Emirates ID had set
C28_Witness ==
    /\ ProfileBuilt
    /\ \E k \in 1..Len(workflow_state.processed_documents) :
          /\ workflow_state.processed_documents[k].document_type = "emirates_id"
          /\ Get(workflow_state.processed_documents[k].structured_data,
                 "full_name", "") = "Ali"
    /\ Get(MergedFromDocuments.applicant_info, "name", "") = "Ali"
    /\ Get(workflow_state.applicant_info, "name", "") = "Omar"
    /\ Get(assessment_data.applicant_info, "name", "") = "Omar"
    /\ Get(assessment_data.applicant_info, "address", "") = "Ajman"

\* C29: the persisted workflow_state.json of a completed run has neither
\* end_time nor duration and the persisted summary's processing_time is
\* "N/A", while the state returned by the completed run carries both; a run
\* that fails validation returns a FAILED state without end_time.
C29_PersistedBeforeEnd ==
    /\ \A i \in 1..Len(persisted) :
          LET dir == output_dir.dirs[persisted[i].key]
          IN  /\ dir["workflow_state.json"].status = COMPLETED
              /\ dir["workflow_state.json"].end_time = NoTime
              /\ dir["workflow_state.json"].duration = NoTime
              /\ dir["summary.json"].processing_time = NoTime
    /\ (pc = "returned" /\ workflow_state.status = COMPLETED) =>
          /\ Len(persisted) >= 1
          /\ workflow_state.end_time # NoTime
          /\ workflow_state.duration # NoTime
          /\ workflow_state.duration
               = workflow_state.end_time - workflow_state.start_time
    /\ (pc = "returned" /\ ~ValidationPassed) =>
          /\ workflow_state.status = FAILED
          /\ workflow_state.end_time = NoTime
          /\ workflow_state.duration = NoTime

\* a completed run returned with an end time its saved state lacks
C29_Witness ==
    /\ pc = "returned"
    /\ workflow_state.status = COMPLETED
    /\ Len(persisted) = 1
    /\ workflow_state.end_time = 1
    /\ workflow_state.duration = 1
    /\ output_dir.dirs[persisted[1].key]["workflow_state.json"].end_time
         = NoTime
    /\ output_dir.dirs[persisted[1].key]["summary.json"].processing_time
         = NoTime

\* the batch is a resume and a bank statement with a detected salary
ResumeAndSalary ==
    /\ pc = "assessed"
    /\ Len(processed_documents) = 2
    /\ {processed_documents[1].document_type,
        processed_documents[2].document_type} = {"resume", "bank_statement"}
    /\ \A k \in 1..2 :
          processed_documents[k].document_type = "bank_statement" =>
              Get(processed_documents[k].structured_data,
                  "average_monthly_salary", 0) > 0

\* the status the resume of the batch states
ResumeStatus ==
    LET k == CHOOSE k \in 1..2 : processed_documents[k].document_type = "resume"
    IN  Get(processed_documents[k].structured_data,
            "current_employment_status", "unemployed")

\* the result of the same batch in the other order, with the same hints
SwappedResult ==
    AssessApplication(BuildProfile(Swapped, workflow_state.applicant_info,
                                   clock))

\* C30: for a resume and a bank statement with a detected salary the last
\* merged document decides employment_info.current_status ("employed" after
\* the bank statement, the resume's status after the resume); when the resume
\* states "unemployed" the employment score is 0.5 or 1.0 accordingly and the
\* overall_score differs between the two orders.
C30_StatusLastWriterWins ==
    ResumeAndSalary =>
        LET bank_last == processed_documents[2].document_type = "bank_statement"
        IN  /\ assessment_data.employment_info["current_status"]
                 = IF bank_last THEN "employed" ELSE ResumeStatus
            /\ (ResumeStatus = "unemployed"
                /\ assessment_result.kind = "scored") =>
                  /\ assessment_result.individual_assessments.employment
                       = IF bank_last THEN 50 ELSE 100
                  /\ SwappedResult.kind = "scored"
                  /\ SwappedResult.individual_assessments.employment
                       = IF bank_last THEN 100 ELSE 50
                  /\ SwappedResult.overall_score
                       = assessment_result.overall_score
                         + (IF bank_last THEN 1500 ELSE -1500)

\* an unemployed applicant's resume followed by a bank statement with a
\* salary was scored as employed
C30_Witness ==
    /\ ResumeAndSalary
    /\ processed_documents[1].document_type = "resume"
    /\ ResumeStatus = "unemployed"
    /\ assessment_data.employment_info["current_status"] = "employed"
    /\ assessment_result.kind = "scored"
    /\ assessment_result.individual_assessments.employment = 50
    /\ SwappedResult.individual_assessments.employment = 100

====
